---- MODULE Spec2Model ----
(***************************************************************************)
(* Model of backend/disease/ml_model.py: the lazily loaded disease model   *)
(* and gatekeeper model (module-level singletons) and predict_disease,     *)
(* executed by request threads that interleave statement by statement;     *)
(* and of backend/yield_prediction/ml_model.py: the lazily loaded yield    *)
(* model, predict_yield and _classify_risk.                                *)
(* The views of backend/disease/views.py and                               *)
(* backend/yield_prediction/views.py run those calls and keep each user's  *)
(* predictions; backend/tts/views.py caches generated speech in media/tts; *)
(* backend/weather/views.py caches weather logs by city.                   *)
(*                                                                         *)
(* Numbers: a probability p is the integer p * 10^5, so a confidence       *)
(* (probability * 100) is the same integer read in units of 0.001 percent. *)
(***************************************************************************)
EXTENDS Integers, Sequences, FiniteSets, TLC

VARIABLES
    model,              \* _model: NoneVal or a handle
    model_loaded,       \* _model_loaded
    using_mock,         \* _using_mock
    gatekeeper_model,   \* _gatekeeper_model: NoneVal or a handle
    labels_file,        \* models/class_labels.txt as it is at import time
    CLASS_LABELS,       \* the label registry: get_class_labels() at import time
    environ,            \* os.environ: RENDER and ENABLE_GATEKEEPER
    frame,              \* per thread: position and locals of its call
    loads,              \* history: executions of load_model
    gk_loads,           \* history: MobileNetV2 models constructed
    gk_first,           \* history: outcome of the first gatekeeper load attempt
    gk_retried,         \* history: a load was attempted after the first one failed
    first_return,       \* history: what the first completed get_disease_model returned
    yield_model,        \* yield_prediction.ml_model._model
    yield_model_loaded, \* yield_prediction.ml_model._model_loaded
    yield_using_mock,   \* yield_prediction.ml_model._using_mock
    yield_files,        \* which of YIELD_MODEL_PATH and YIELD_MODEL_PATH + '.gz' exist
    yield_environ,      \* os.environ: SKIP_YIELD_MODEL
    yframe,             \* per thread: position and locals of its predict_yield call
    yield_loads,        \* history: joblib.load calls that returned a model
    yield_first_return, \* history: what the first completed get_yield_model returned
    disease_rows,       \* the DiseasePrediction table, in insertion order
    yield_rows,         \* the YieldPrediction table, in insertion order
    web,                \* per thread: the request a view is handling, and its response
    saves,              \* history: rows created since the process started
    settings,           \* django.conf.settings: OPENAI_API_KEY and WEATHER_API_KEY
    tts_media,          \* MEDIA_ROOT/tts: per file name, "absent", "partial" or "complete"
    tts,                \* per thread: position and locals of its TextToSpeechView.post
    tts_generated,      \* history: the (text, lang) whose audio was generated in full
    weather_rows,       \* the WeatherLog table, in insertion order
    now,                \* timezone.now(), in seconds
    wreq,               \* position and locals of the WeatherView.get being handled
    weather_calls       \* history: the requests.get calls, in order

disease_vars == <<model, model_loaded, using_mock, gatekeeper_model, labels_file, CLASS_LABELS,
                  environ, frame, loads, gk_loads, gk_first, gk_retried, first_return>>

yield_vars == <<yield_model, yield_model_loaded, yield_using_mock, yield_files,
                yield_environ, yframe, yield_loads, yield_first_return>>

web_vars == <<disease_rows, yield_rows, web, saves>>

tts_vars == <<settings, tts_media, tts, tts_generated>>

weather_vars == <<weather_rows, now, wreq, weather_calls>>

\* what the steps of disease/ml_model.py, and of yield_prediction/ml_model.py,
\* never touch
outside_disease == <<yield_vars, web_vars, tts_vars, weather_vars>>
outside_yield == <<disease_vars, web_vars, tts_vars, weather_vars>>

vars == <<disease_vars, yield_vars, web_vars, tts_vars, weather_vars>>

\* ---------------------------------------------------------------- bounds

NumThreads == 2

Threads == 1..NumThreads

\* ---------------------------------------------------------------- values

\* Python's None; a loaded object is <<kind, serial>>, one serial per load.
NoneVal == <<>>
Handle(kind, n) == <<kind, n>>

\* an optional string (a crop filter): NoneVal or Some(s)
Some(s) == <<s>>
\* `if x:` for an optional string
Truthy(x) == x # NoneVal /\ x[1] # ""

\* ------------------------------------------------------- string functions

LowerOf == [c \in {"A","B","C","D","E","F","G","H","I","J","K","L","M",
                   "N","O","P","Q","R","S","T","U","V","W","X","Y","Z"} |->
    CASE c = "A" -> "a" [] c = "B" -> "b" [] c = "C" -> "c" [] c = "D" -> "d"
      [] c = "E" -> "e" [] c = "F" -> "f" [] c = "G" -> "g" [] c = "H" -> "h"
      [] c = "I" -> "i" [] c = "J" -> "j" [] c = "K" -> "k" [] c = "L" -> "l"
      [] c = "M" -> "m" [] c = "N" -> "n" [] c = "O" -> "o" [] c = "P" -> "p"
      [] c = "Q" -> "q" [] c = "R" -> "r" [] c = "S" -> "s" [] c = "T" -> "t"
      [] c = "U" -> "u" [] c = "V" -> "v" [] c = "W" -> "w" [] c = "X" -> "x"
      [] c = "Y" -> "y" [] c = "Z" -> "z"]

UpperOf == [c \in {LowerOf[u] : u \in DOMAIN LowerOf} |->
    CHOOSE u \in DOMAIN LowerOf : LowerOf[u] = c]

CharAt(s, i) == SubSeq(s, i, i)

LowerChar(c) == IF c \in DOMAIN LowerOf THEN LowerOf[c] ELSE c
UpperChar(c) == IF c \in DOMAIN UpperOf THEN UpperOf[c] ELSE c
IsCased(c) == c \in DOMAIN LowerOf \/ c \in DOMAIN UpperOf

RECURSIVE LowerFrom(_, _)
LowerFrom(s, i) ==
    IF i > Len(s) THEN "" ELSE LowerChar(CharAt(s, i)) \o LowerFrom(s, i + 1)

\* str.lower()
Lower(s) == LowerFrom(s, 1)

\* `k in s`
Contains(s, k) ==
    \E i \in 1..(Len(s) - Len(k) + 1) : SubSeq(s, i, i + Len(k) - 1) = k

\* s.startswith(p)
StartsWith(s, p) == Len(p) <= Len(s) /\ SubSeq(s, 1, Len(p)) = p

RECURSIVE ReplaceFrom(_, _, _, _)
ReplaceFrom(s, old, new, i) ==
    IF i > Len(s) THEN ""
    ELSE IF i + Len(old) - 1 <= Len(s) /\ SubSeq(s, i, i + Len(old) - 1) = old
         THEN new \o ReplaceFrom(s, old, new, i + Len(old))
         ELSE CharAt(s, i) \o ReplaceFrom(s, old, new, i + 1)

\* s.replace(old, new) for a non-empty old: leftmost, non-overlapping
Replace(s, old, new) == ReplaceFrom(s, old, new, 1)

RECURSIVE TitleFrom(_, _, _)
TitleFrom(s, i, prevCased) ==
    IF i > Len(s) THEN ""
    ELSE LET c == CharAt(s, i)
         IN (IF prevCased THEN LowerChar(c) ELSE UpperChar(c))
                \o TitleFrom(s, i + 1, IsCased(c))

\* str.title()
Title(s) == TitleFrom(s, 1, FALSE)

\* _format_label
format_label(raw_label) == Title(Replace(Replace(raw_label, "___", " "), "_", " "))

\* ------------------------------------------------------- program constants

\* DEFAULT_CLASS_LABELS (48 labels)
DEFAULT_CLASS_LABELS == <<
    "Apple___Apple_scab", "Apple___Black_rot",
    "Apple___Cedar_apple_rust", "Apple___healthy",
    "Blueberry___healthy", "Cherry_(including_sour)___Powdery_mildew",
    "Cherry_(including_sour)___healthy", "Corn_(maize)___Cercospora_leaf_spot Gray_leaf_spot",
    "Corn_(maize)___Common_rust_", "Corn_(maize)___Northern_Leaf_Blight",
    "Corn_(maize)___healthy", "Grape___Black_rot",
    "Grape___Esca_(Black_Measles)", "Grape___Leaf_blight_(Isariopsis_Leaf_Spot)",
    "Grape___healthy", "Onion___Purple_blotch",
    "Onion___healthy", "Orange___Haunglongbing_(Citrus_greening)",
    "Peach___Bacterial_spot", "Peach___healthy",
    "Pepper,_bell___Bacterial_spot", "Pepper,_bell___healthy",
    "Potato___Early_blight", "Potato___Late_blight",
    "Potato___healthy", "Raspberry___healthy",
    "Rice___Brown_spot", "Rice___Hispa",
    "Rice___Leaf_blast", "Rice___healthy",
    "Soybean___healthy", "Squash___Powdery_mildew",
    "Strawberry___Leaf_scorch", "Strawberry___healthy",
    "Tomato___Bacterial_spot", "Tomato___Early_blight",
    "Tomato___Late_blight", "Tomato___Leaf_Mold",
    "Tomato___Septoria_leaf_spot", "Tomato___Spider_mites Two-spotted_spider_mite",
    "Tomato___Target_Spot", "Tomato___Tomato_Yellow_Leaf_Curl_Virus",
    "Tomato___Tomato_mosaic_virus", "Tomato___healthy",
    "Wheat___Brown_rust", "Wheat___Septoria",
    "Wheat___Yellow_rust", "Wheat___healthy" >>

\* The keyword vocabulary of check_is_plant
VALID == {
    "plant", "leaf", "flower", "fruit", "vegetable", "tree",
    "grass", "agriculture", "garden", "crop", "corn", "wheat",
    "rice", "onion", "potato", "tomato", "pepper", "apple",
    "grape", "orange", "strawberry", "peach", "cherry", "blueberry",
    "raspberry", "soybean", "squash", "lettuce", "cabbage", "broccoli",
    "produce", "food", "pot", "farm", "greenhouse", "mushroom",
    "pod", "seed", "grain", "root", "tuber" }

\* `mock_idx = 29` (a Python index: the first element has index 0)
MOCK_IDX == 29

\* `confidence < 45.0`, in units of 0.001 percent
CONFIDENCE_THRESHOLD == 45000

\* the values os.getenv(...).lower() accepts as true
TRUTHY == {"true", "1", "yes"}

\* ------------------------------------------------------- Python sequences

\* Python indices start at 0
InRange(seq, i) == i >= 0 /\ i < Len(seq)
At(seq, i) == seq[i + 1]
Indices(seq) == 0..(Len(seq) - 1)

Has(seq, x) == \E i \in DOMAIN seq : seq[i] = x

\* an exception object: its class and str(e)
Exc(type, msg) == [type |-> type, msg |-> msg]
NoExc == [type |-> "", msg |-> ""]

\* ------------------------------------------------------- get_class_labels

\* the characters str.strip() removes
IsSpace(c) == c \in {" ", "\t", "\n", "\r"}

RECURSIVE LStrip(_)
LStrip(s) == IF Len(s) > 0 /\ IsSpace(CharAt(s, 1)) THEN LStrip(SubSeq(s, 2, Len(s))) ELSE s

RECURSIVE RStrip(_)
RStrip(s) ==
    IF Len(s) > 0 /\ IsSpace(CharAt(s, Len(s))) THEN RStrip(SubSeq(s, 1, Len(s) - 1)) ELSE s

\* str.strip()
Strip(s) == RStrip(LStrip(s))

\* s.split(sep, 1) for a one-character sep: one part, or the parts before
\* and after the first sep
SplitOnce(s, sep) ==
    LET at == {i \in 1..Len(s) : CharAt(s, i) = sep}
    IN IF at = {} THEN <<s>>
       ELSE LET i == CHOOSE i \in at : \A j \in at : i <= j
            IN <<SubSeq(s, 1, i - 1), SubSeq(s, i + 1, Len(s))>>

DigitOf == [c \in {"0", "1", "2", "3", "4", "5", "6", "7", "8", "9"} |->
    CASE c = "0" -> 0 [] c = "1" -> 1 [] c = "2" -> 2 [] c = "3" -> 3 [] c = "4" -> 4
      [] c = "5" -> 5 [] c = "6" -> 6 [] c = "7" -> 7 [] c = "8" -> 8 [] c = "9" -> 9]

\* the literal without its sign
Unsigned(s) == IF Len(s) > 0 /\ CharAt(s, 1) \in {"+", "-"} THEN SubSeq(s, 2, Len(s)) ELSE s

\* int(s) returns for s (surrounding whitespace aside): an optional sign
\* and decimal digits, with single underscores between digits; otherwise
\* it raises ValueError
IsInt(s) ==
    LET b == Unsigned(Strip(s))
    IN /\ Len(b) > 0
       /\ CharAt(b, 1) \in DOMAIN DigitOf
       /\ CharAt(b, Len(b)) \in DOMAIN DigitOf
       /\ \A i \in 1..Len(b) : CharAt(b, i) \in DOMAIN DigitOf \/ CharAt(b, i) = "_"
       /\ ~Contains(b, "__")

RECURSIVE DigitsValue(_, _, _)
DigitsValue(b, i, acc) ==
    IF i > Len(b) THEN acc
    ELSE IF CharAt(b, i) = "_" THEN DigitsValue(b, i + 1, acc)
    ELSE DigitsValue(b, i + 1, 10 * acc + DigitOf[CharAt(b, i)])

\* int(s)
IntOf(s) ==
    LET t == Strip(s)
        v == DigitsValue(Unsigned(t), 1, 0)
    IN IF Len(t) > 0 /\ CharAt(t, 1) = "-" THEN 0 - v ELSE v

\* sorted(S) for a set of integers
RECURSIVE Sorted(_)
Sorted(S) ==
    IF S = {} THEN <<>>
    ELSE LET m == CHOOSE m \in S : \A x \in S : m <= x
         IN <<m>> \o Sorted(S \ {m})

\* models/class_labels.txt: whether it exists, whether it can be opened and
\* read, and its lines
LabelFile(lines) == [exists |-> TRUE, readable |-> TRUE, lines |-> lines]
NoLabelFile == [exists |-> FALSE, readable |-> FALSE, lines |-> <<>>]
UnreadableLabelFile == [exists |-> TRUE, readable |-> FALSE, lines |-> <<>>]

\* `parts = line.strip().split(':', 1)`
parts_of(line) == SplitOnce(Strip(line), ":")

\* `if len(parts) == 2:`
has_two_parts(parts) == Len(parts) = 2

\* lines 92-98 with every int() returning: the dict `labels` after the loop
\* (a later line replaces an earlier one with the same index), then
\* `[labels[i] for i in sorted(labels.keys())]`
labels_by_index(fields) ==
    LET keys == {IntOf(fields[k][1]) : k \in DOMAIN fields}
        last(i) == CHOOSE k \in DOMAIN fields :
                        /\ IntOf(fields[k][1]) = i
                        /\ \A j \in DOMAIN fields : IntOf(fields[j][1]) = i => j <= k
        order == Sorted(keys)
    IN [p \in DOMAIN order |-> Strip(fields[last(order[p])][2])]

\* get_class_labels: the labels of the file by ascending index, or the
\* default labels when there is no file, when it cannot be read, or when
\* int() raises on a line (the `except Exception` of line 99)
get_class_labels(file) ==
    IF file.exists /\ file.readable
    THEN LET fields == SelectSeq([k \in DOMAIN file.lines |-> parts_of(file.lines[k])],
                                 has_two_parts)
         IN IF \A k \in DOMAIN fields : IsInt(fields[k][1])
            THEN labels_by_index(fields)
            ELSE DEFAULT_CLASS_LABELS
    ELSE DEFAULT_CLASS_LABELS

\* ------------------------------------------------------------- workloads
\* What a run draws from: the images and crop filters of the requests, the
\* label files and environments of the process, and what the TensorFlow
\* backend answers (decoded gatekeeper labels, output vectors, messages of
\* the exceptions it raises).

\* image tensors by content: "unit" is in [0,1] (what the view passes),
\* "raw" is in [0,255] with a pixel above 1
Tensor(src) == [src |-> src, scaled |-> FALSE, preprocessed |-> FALSE]
NoTensor == [src |-> "", scaled |-> FALSE, preprocessed |-> FALSE]

SmallLabels == << "Tomato___Early_blight", "Sweet_Corn___healthy", "Corn_(maize)___Common_rust_",
                 "Basmati_Rice___Leaf_blast" >>

\* the file a training script writes for SmallLabels: `f"{idx}: {label}\n"`
SmallFile == LabelFile(<< "0: Tomato___Early_blight\n", "1: Sweet_Corn___healthy\n",
                          "2: Corn_(maize)___Common_rust_\n",
                          "3: Basmati_Rice___Leaf_blast\n" >>)

\* label files as they are written and as they are edited by hand: lines
\* out of order, blank lines and lines without a colon, an index that is
\* no integer, an index declared twice, indices with a gap, indices that
\* start at 1, a label with a colon in it
EditedFiles == {
    SmallFile,
    NoLabelFile,
    UnreadableLabelFile,
    LabelFile(<<"2: Rice___Hispa\n", "0: Onion___healthy\n", "1: Potato___healthy\n">>),
    LabelFile(<<"0: Onion___healthy\n", "\n", "potato labels\n", " 1 :  Potato___healthy \n">>),
    LabelFile(<<"0: Onion___healthy\n", "one: Potato___healthy\n", "2: Rice___Hispa\n">>),
    LabelFile(<<"# index: label\n", "0: Onion___healthy\n", "1: Potato___healthy\n">>),
    LabelFile(<<"0: Onion___healthy\n", "1.0: Potato___healthy\n">>),
    LabelFile(<<"0: Onion___healthy\n", "1: Potato___healthy\n", "1: Rice___Hispa\n">>),
    LabelFile(<<"0: Onion___healthy\n", "2: Rice___Hispa\n">>),
    LabelFile(<<"1: Onion___healthy\n", "2: Potato___healthy\n", "3: Rice___Hispa\n">>),
    LabelFile(<<"0: Grape: Black_rot\n", "+1: Grape___healthy\n">>) }

Unset == "(unset)"
Environ(render, enable) == [RENDER |-> render, ENABLE_GATEKEEPER |-> enable]

\* output vectors of length n: zero but for a value p at index i and a
\* value q at index j (p wins where i = j)
Vector(n, i, p, j, q) ==
    [k \in 1..n |-> IF k = i + 1 THEN p ELSE IF k = j + 1 THEN q ELSE 0]

Concurrent == [
    images      |-> {"unit"},
    filters     |-> {NoneVal},
    label_files |-> {SmallFile},
    environs    |-> {Environ(Unset, Unset)},
    errors      |-> {"out of memory"},
    tops        |-> {<<"Egyptian_cat", "tabby", "lynx">>},
    extra       |-> {0},
    peak_at     |-> {"first"},
    peaks       |-> {90000},
    seconds     |-> {0} ]

Sequential == [
    images      |-> {"unit", "raw"},
    filters     |-> {NoneVal, Some(""), Some("Corn"), Some("banana"), Some("rice")},
    label_files |-> {NoLabelFile, SmallFile},
    environs    |-> {Environ(Unset, Unset), Environ("true", Unset)},
    errors      |-> {"", "out of memory"},
    tops        |-> {<<"daisy", "flowerpot", "bee">>, <<"Egyptian_cat", "tabby", "lynx">>,
                    <<"teapot", "cup", "tray">>, <<"laptop", "FLOWER", "desk">>},
    extra       |-> {-1, 0, 1},
    peak_at     |-> {"first", "last"},
    peaks       |-> {0, 30000, 44996, 45000, 150000},
    seconds     |-> {0, 45000} ]

\* the two flags of the gatekeeper policy over unset, truthy and other
\* values, with one image and one backend answer of each kind
GatePolicy == [
    images      |-> {"unit"},
    filters     |-> {NoneVal},
    label_files |-> {SmallFile},
    environs    |-> {Environ(r, e) : r \in {Unset, "true", "YES", "0", "render"},
                                    e \in {Unset, "True", "1", "yes", "false", "", "on"}},
    errors      |-> {"out of memory"},
    tops        |-> {<<"Egyptian_cat", "tabby", "lynx">>},
    extra       |-> {0},
    peak_at     |-> {"first"},
    peaks       |-> {90000},
    seconds     |-> {0} ]

\* every label file, with output vectors as long as the registry or one
\* longer, and their peak at the first or the last index
Labelled == [
    images      |-> {"unit"},
    filters     |-> {NoneVal},
    label_files |-> EditedFiles,
    environs    |-> {Environ(Unset, Unset)},
    errors      |-> {"out of memory"},
    tops        |-> {<<"daisy", "flowerpot", "bee">>},
    extra       |-> {0, 1},
    peak_at     |-> {"first", "last"},
    peaks       |-> {90000},
    seconds     |-> {0, 30000} ]

\* the vectors model.predict can return for a registry of n labels: n
\* entries, or more or fewer when the model was trained on another number
\* of classes; an entry is a probability unless the output layer is not a
\* softmax
Vectors(W, n) ==
    { Vector(n + x, IF at = "first" THEN 0 ELSE n + x - 1, p, 1, q) :
        x \in W.extra, at \in W.peak_at, p \in W.peaks, q \in W.seconds }

\* ------------------------------------------------------------------ state

InitFrame == [
    pc            |-> "idle",
    started_after |-> FALSE,    \* history: the call began after a get_disease_model returned
    attempted     |-> FALSE,    \* history: the call went past the _model_loaded test
    image_array   |-> NoTensor,
    crop_filter   |-> NoneVal,
    model         |-> NoneVal,
    using_mock    |-> FALSE,
    gk            |-> NoneVal,
    is_plant      |-> FALSE,
    content_desc  |-> "",
    decoded       |-> <<>>,
    gate_event    |-> "",       \* history: "skipped", "error" or "decoded"
    gate_input    |-> NoTensor, \* history: the tensor gk.predict was given
    predictions   |-> <<>>,
    raw_output    |-> <<>>,     \* history: the vector model.predict returned
    pred_idx      |-> 0,
    confidence    |-> 0,
    raw_label     |-> "",
    exc           |-> NoExc,
    result        |-> [kind |-> "none"],
    trace         |-> <<>> ]    \* history: the pipeline steps this call ran

InitWith(W) ==
    /\ model = NoneVal
    /\ model_loaded = FALSE
    /\ using_mock = FALSE
    /\ gatekeeper_model = NoneVal
    /\ labels_file \in W.label_files
    /\ CLASS_LABELS = get_class_labels(labels_file)
    /\ environ \in W.environs
    /\ frame = [t \in Threads |-> InitFrame]
    /\ loads = 0
    /\ gk_loads = 0
    /\ gk_first = "none"
    /\ gk_retried = FALSE
    /\ first_return = [done |-> FALSE, model |-> NoneVal, using_mock |-> FALSE]

Set(t, f) == frame' = [frame EXCEPT ![t] = f]
Goto(t, pc) == Set(t, [frame[t] EXCEPT !.pc = pc])

\* an exception leaves predict_disease
Propagate(f, e) == [f EXCEPT !.pc = "raised", !.exc = e, !.result = [kind |-> "raised"]]

globals == <<model, model_loaded, using_mock, gatekeeper_model, labels_file, CLASS_LABELS,
            environ>>
history == <<loads, gk_loads, gk_first, gk_retried, first_return>>

\* ------------------------------------------------------- predict_disease
\* A request thread calls predict_disease(image_array, crop_filter).
Call(t, W) ==
    /\ frame[t].pc \in {"idle", "returned", "raised"}
    /\ \E img \in W.images, cf \in W.filters :
        Set(t, [InitFrame EXCEPT !.pc = "gdm_if_loaded",
                                 !.image_array = Tensor(img),
                                 !.crop_filter = cf,
                                 !.started_after = first_return.done])
    /\ UNCHANGED <<globals, history>>
    /\ UNCHANGED outside_disease

\* ----------------------------------------------------- get_disease_model

\* `if _model_loaded:`
gdm_if_loaded(t) ==
    /\ frame[t].pc = "gdm_if_loaded"
    /\ IF model_loaded
       THEN Goto(t, "gdm_return_cached")
       ELSE Set(t, [frame[t] EXCEPT !.pc = "gdm_exists", !.attempted = TRUE])
    /\ UNCHANGED <<globals, history>>
    /\ UNCHANGED outside_disease

\* `return _model, _using_mock`, received by `model, using_mock = ...`
gdm_return(t) ==
    /\ frame[t].pc \in {"gdm_return_cached", "gdm_return_real", "gdm_return_mock"}
    /\ Set(t, [frame[t] EXCEPT !.pc = "pd_if_mock",
                               !.model = model,
                               !.using_mock = using_mock,
                               !.trace = Append(@, "acquire")])
    /\ first_return' = IF first_return.done THEN first_return
                       ELSE [done |-> TRUE, model |-> model, using_mock |-> using_mock]
    /\ UNCHANGED <<globals, loads, gk_loads, gk_first, gk_retried>>
    /\ UNCHANGED outside_disease

\* `if os.path.exists(model_path):` the file system answers either way
gdm_exists(t) ==
    /\ frame[t].pc = "gdm_exists"
    /\ \E exists \in BOOLEAN :
        Goto(t, IF exists THEN "gdm_load" ELSE "gdm_fallback")
    /\ UNCHANGED <<globals, history>>
    /\ UNCHANGED outside_disease

\* `import tensorflow as tf; _model = tf.keras.models.load_model(model_path)`
\* or ImportError, or any other exception
gdm_load(t) ==
    /\ frame[t].pc = "gdm_load"
    /\ \E outcome \in {"loaded", "ImportError", "Exception"} :
        /\ loads' = IF outcome = "ImportError" THEN loads ELSE loads + 1
        /\ IF outcome = "loaded"
           THEN /\ model' = Handle("disease", loads + 1)
                /\ Goto(t, "gdm_set_loaded")
           ELSE /\ model' = model
                /\ Goto(t, "gdm_fallback")
    /\ UNCHANGED <<model_loaded, using_mock, gatekeeper_model, labels_file, CLASS_LABELS,
                   environ, gk_loads, gk_first, gk_retried, first_return>>
    /\ UNCHANGED outside_disease

\* `_model_loaded = True` after a load
gdm_set_loaded(t) ==
    /\ frame[t].pc = "gdm_set_loaded"
    /\ model_loaded' = TRUE
    /\ Goto(t, "gdm_set_real")
    /\ UNCHANGED <<model, using_mock, gatekeeper_model, labels_file, CLASS_LABELS, environ, history>>
    /\ UNCHANGED outside_disease

\* `_using_mock = False`
gdm_set_real(t) ==
    /\ frame[t].pc = "gdm_set_real"
    /\ using_mock' = FALSE
    /\ Goto(t, "gdm_return_real")
    /\ UNCHANGED <<model, model_loaded, gatekeeper_model, labels_file, CLASS_LABELS, environ, history>>
    /\ UNCHANGED outside_disease

\* the fallback: `_model = None`
gdm_fallback(t) ==
    /\ frame[t].pc = "gdm_fallback"
    /\ model' = NoneVal
    /\ Goto(t, "gdm_fallback_loaded")
    /\ UNCHANGED <<model_loaded, using_mock, gatekeeper_model, labels_file, CLASS_LABELS, environ, history>>
    /\ UNCHANGED outside_disease

\* the fallback: `_model_loaded = True`
gdm_fallback_loaded(t) ==
    /\ frame[t].pc = "gdm_fallback_loaded"
    /\ model_loaded' = TRUE
    /\ Goto(t, "gdm_fallback_mock")
    /\ UNCHANGED <<model, using_mock, gatekeeper_model, labels_file, CLASS_LABELS, environ, history>>
    /\ UNCHANGED outside_disease

\* the fallback: `_using_mock = True`
gdm_fallback_mock(t) ==
    /\ frame[t].pc = "gdm_fallback_mock"
    /\ using_mock' = TRUE
    /\ Goto(t, "gdm_return_mock")
    /\ UNCHANGED <<model, model_loaded, gatekeeper_model, labels_file, CLASS_LABELS, environ, history>>
    /\ UNCHANGED outside_disease

get_disease_model(t) ==
    \/ gdm_if_loaded(t)
    \/ gdm_exists(t)
    \/ gdm_load(t)
    \/ gdm_set_loaded(t)
    \/ gdm_set_real(t)
    \/ gdm_fallback(t)
    \/ gdm_fallback_loaded(t)
    \/ gdm_fallback_mock(t)
    \/ gdm_return(t)

\* -------------------------------------------------- get_gatekeeper_model

\* os.getenv(name, default)
getenv(name, default) == IF environ[name] = Unset THEN default ELSE environ[name]

\* a policy where the deployment profile wins over the override
should_enable_render_wins ==
    LET is_render == Lower(getenv("RENDER", "False")) \in TRUTHY
    IN ~is_render /\ Lower(getenv("ENABLE_GATEKEEPER", "True")) \in TRUTHY

\* lines 160-166: the gate is on unless RENDER says otherwise, and
\* ENABLE_GATEKEEPER decides when it is set
should_enable ==
    LET is_render     == Lower(getenv("RENDER", "False")) \in TRUTHY
        default_state == IF is_render THEN "False" ELSE "True"
    IN Lower(getenv("ENABLE_GATEKEEPER", default_state)) \in TRUTHY

\* `if not should_enable: return None`
gk_policy(t) ==
    /\ frame[t].pc = "gk_policy"
    /\ IF should_enable
       THEN Goto(t, "gk_if_none")
       ELSE Set(t, [frame[t] EXCEPT !.pc = "cip_if_gk", !.gk = NoneVal])
    /\ UNCHANGED <<globals, history>>
    /\ UNCHANGED outside_disease

\* a gatekeeper that is constructed again on every call
gk_if_none_always_loads(t) ==
    /\ frame[t].pc = "gk_if_none"
    /\ Goto(t, "gk_load")
    /\ UNCHANGED <<globals, history>>
    /\ UNCHANGED outside_disease

\* `if _gatekeeper_model is None:`
gk_if_none(t) ==
    /\ frame[t].pc = "gk_if_none"
    /\ Goto(t, IF gatekeeper_model = NoneVal THEN "gk_load" ELSE "gk_return")
    /\ UNCHANGED <<globals, history>>
    /\ UNCHANGED outside_disease

\* `_gatekeeper_model = MobileNetV2(weights='imagenet', include_top=True)`,
\* or an exception and `return None`
gk_load(t) ==
    /\ frame[t].pc = "gk_load"
    /\ gk_retried' = (gk_retried \/ gk_first = "failed")
    /\ \E outcome \in {"loaded", "failed"} :
        /\ gk_first' = IF gk_first = "none" THEN outcome ELSE gk_first
        /\ IF outcome = "loaded"
           THEN /\ gatekeeper_model' = Handle("gatekeeper", gk_loads + 1)
                /\ gk_loads' = gk_loads + 1
                /\ Goto(t, "gk_return")
           ELSE /\ gatekeeper_model' = gatekeeper_model
                /\ gk_loads' = gk_loads
                /\ Set(t, [frame[t] EXCEPT !.pc = "cip_if_gk", !.gk = NoneVal])
    /\ UNCHANGED <<model, model_loaded, using_mock, labels_file, CLASS_LABELS, environ,
                   loads, first_return>>
    /\ UNCHANGED outside_disease

\* `return _gatekeeper_model`, received by `gk = get_gatekeeper_model()`
gk_return(t) ==
    /\ frame[t].pc = "gk_return"
    /\ Set(t, [frame[t] EXCEPT !.pc = "cip_if_gk", !.gk = gatekeeper_model])
    /\ UNCHANGED <<globals, history>>
    /\ UNCHANGED outside_disease

get_gatekeeper_model(t) ==
    \/ gk_policy(t)
    \/ gk_if_none(t)
    \/ gk_load(t)
    \/ gk_return(t)

\* --------------------------------------------------------- check_is_plant

\* `if not gk: return True, "Check Skipped"`
cip_if_gk(t) ==
    /\ frame[t].pc = "cip_if_gk"
    /\ IF frame[t].gk = NoneVal
       THEN Set(t, [frame[t] EXCEPT !.pc = "pd_if_plant",
                                    !.is_plant = TRUE,
                                    !.content_desc = "Check Skipped",
                                    !.gate_event = "skipped"])
       ELSE Goto(t, "cip_predict")
    /\ UNCHANGED <<globals, history>>
    /\ UNCHANGED outside_disease

\* a keyword test that forgets `.lower()`
is_valid_label_cased(label) == \E k \in VALID : Contains(label, k)

\* `any(k in label_lower for k in VALID)`
is_valid_label(label) == \E k \in VALID : Contains(Lower(label), k)

\* lines 208-219 on the decoded top-3 labels: (is_valid, description)
classify_decoded(decoded) ==
    LET matches == SelectSeq(decoded, is_valid_label)
    IN IF matches # <<>> THEN <<TRUE, matches[1]>> ELSE <<FALSE, decoded[1]>>

\* a gate that fails closed
cip_on_error_closed == <<FALSE, "Error">>

\* what the `except` of check_is_plant returns
cip_on_error == <<TRUE, "Error">>

\* lines 192-223: gk.predict and decode_predictions give the top-3 labels,
\* or raise
cip_predict(t, W) ==
    /\ frame[t].pc = "cip_predict"
    /\ \E raises \in BOOLEAN :
        IF raises
        THEN Set(t, [frame[t] EXCEPT !.pc = "pd_if_plant",
                                     !.gate_input = frame[t].image_array,
                                     !.is_plant = cip_on_error[1],
                                     !.content_desc = cip_on_error[2],
                                     !.gate_event = "error"])
        ELSE \E decoded \in W.tops :
                Set(t, [frame[t] EXCEPT !.pc = "pd_if_plant",
                                        !.gate_input = frame[t].image_array,
                                        !.decoded = decoded,
                                        !.is_plant = classify_decoded(decoded)[1],
                                        !.content_desc = classify_decoded(decoded)[2],
                                        !.gate_event = "decoded"])
    /\ UNCHANGED <<globals, history>>
    /\ UNCHANGED outside_disease

check_is_plant(t, W) ==
    \/ cip_if_gk(t)
    \/ cip_predict(t, W)

\* ------------------------------------------------------- numeric helpers

\* np.max
MaxOf(v) == CHOOSE x \in {v[k] : k \in DOMAIN v} : \A k \in DOMAIN v : v[k] <= x

\* an argmax that keeps the last index holding the maximum
ArgMaxLast(v) == (CHOOSE k \in DOMAIN v : v[k] = MaxOf(v) /\ \A j \in (k + 1)..Len(v) : v[j] < MaxOf(v)) - 1

\* np.argmax: the first index holding the maximum
ArgMax(v) == (CHOOSE k \in DOMAIN v : v[k] = MaxOf(v) /\ \A j \in 1..(k - 1) : v[j] < MaxOf(v)) - 1

\* round() to a multiple of `unit`, ties to even
Round(c, unit) ==
    LET q == c \div unit
        r == c % unit
    IN IF 2 * r < unit THEN q * unit
       ELSE IF 2 * r > unit THEN (q + 1) * unit
       ELSE IF q % 2 = 0 THEN q * unit ELSE (q + 1) * unit

\* str() of a confidence rounded to one decimal, e.g. "44.9"
Format1(c) == ToString(c \div 1000) \o "." \o ToString((c % 1000) \div 100)

\* ------------------------------------------------- predict_disease, mock

\* `if using_mock:`
pd_if_mock(t) ==
    /\ frame[t].pc = "pd_if_mock"
    /\ Goto(t, IF frame[t].using_mock THEN "pd_mock" ELSE "pd_scale")
    /\ UNCHANGED <<globals, history>>
    /\ UNCHANGED outside_disease

\* lines 236-242: the first label containing the filter, else 29
mock_index(labels, crop_filter) ==
    LET hits == { i \in Indices(labels) :
                    Contains(Lower(At(labels, i)), Lower(crop_filter[1])) }
    IN IF Truthy(crop_filter) /\ hits # {}
       THEN CHOOSE i \in hits : \A j \in hits : i <= j
       ELSE MOCK_IDX

\* the dict of lines 244-250 and 305-311
success_result(raw_label, confidence) == [
    kind         |-> "result",
    success      |-> TRUE,
    disease_name |-> format_label(raw_label),
    confidence   |-> confidence,
    is_healthy   |-> Contains(Lower(raw_label), "healthy"),
    raw_label    |-> raw_label ]

\* `85.50`
MOCK_CONFIDENCE == 85500

\* lines 235-250: `CLASS_LABELS[mock_idx]` raises IndexError past the end
pd_mock(t) ==
    /\ frame[t].pc = "pd_mock"
    /\ LET mock_idx == mock_index(CLASS_LABELS, frame[t].crop_filter)
       IN IF InRange(CLASS_LABELS, mock_idx)
          THEN Set(t, [frame[t] EXCEPT
                    !.pc = "returned",
                    !.raw_label = At(CLASS_LABELS, mock_idx),
                    !.result = success_result(At(CLASS_LABELS, mock_idx), MOCK_CONFIDENCE)])
          ELSE Set(t, Propagate(frame[t], Exc("IndexError", "list index out of range")))
    /\ UNCHANGED <<globals, history>>
    /\ UNCHANGED outside_disease

\* ------------------------------------------------- predict_disease, real

\* `np.max(image_array) <= 1.0`
max_at_most_one(tensor) == tensor.src = "unit"

\* lines 254-255: `if np.max(image_array) <= 1.0: image_array = image_array * 255.0`
pd_scale(t, W) ==
    /\ frame[t].pc = "pd_scale"
    /\ \E raises \in BOOLEAN :
        IF raises
        THEN \E msg \in W.errors : Set(t, Propagate(frame[t], Exc("ValueError", msg)))
        ELSE Set(t, [frame[t] EXCEPT
                !.pc = "pd_preprocess",
                !.image_array.scaled = max_at_most_one(frame[t].image_array)])
    /\ UNCHANGED <<globals, history>>
    /\ UNCHANGED outside_disease

\* a pipeline that calls the gate before preprocess_input is applied
pd_preprocess_skipped(t, W) ==
    /\ frame[t].pc = "pd_preprocess"
    /\ Goto(t, "gk_policy")
    /\ UNCHANGED <<globals, history>>
    /\ UNCHANGED outside_disease

\* lines 257-259: `import tensorflow as tf` and preprocess_input
pd_preprocess(t, W) ==
    /\ frame[t].pc = "pd_preprocess"
    /\ \E raises \in BOOLEAN :
        IF raises
        THEN \E msg \in W.errors : Set(t, Propagate(frame[t], Exc("Exception", msg)))
        ELSE Set(t, [frame[t] EXCEPT
                !.pc = "gk_policy",
                !.image_array.preprocessed = TRUE,
                !.trace = Append(@, "normalize")])
    /\ UNCHANGED <<globals, history>>
    /\ UNCHANGED outside_disease

\* the dict of lines 264-271
rejection_result(content_desc) == [
    kind         |-> "result",
    success      |-> FALSE,
    disease_name |-> "Invalid data",
    confidence   |-> 0,
    is_healthy   |-> FALSE,
    error        |-> "Image appears to be '" \o Replace(content_desc, "_", " ")
                        \o "', not a crop leaf.",
    raw_label    |-> "invalid_content" ]

\* lines 262-271: `is_plant, content_desc = check_is_plant(image_array)`
\* has returned; `if not is_plant: return {...}`
pd_if_plant(t) ==
    /\ frame[t].pc = "pd_if_plant"
    /\ IF frame[t].is_plant
       THEN Set(t, [frame[t] EXCEPT !.pc = "pd_predict", !.trace = Append(@, "gate")])
       ELSE Set(t, [frame[t] EXCEPT
                !.pc = "returned",
                !.trace = Append(@, "gate"),
                !.result = rejection_result(frame[t].content_desc)])
    /\ UNCHANGED <<globals, history>>
    /\ UNCHANGED outside_disease

\* enter the `except Exception as e:` of line 313
Caught(f, e) == [f EXCEPT !.pc = "pd_except", !.exc = e]

\* line 275: `predictions = model.predict(image_array, verbose=0)[0]`
pd_predict(t, W) ==
    /\ frame[t].pc = "pd_predict"
    /\ LET f == [frame[t] EXCEPT !.trace = Append(@, "inference")]
       IN IF f.model = NoneVal
          THEN Set(t, Caught(f, Exc("AttributeError",
                        "'NoneType' object has no attribute 'predict'")))
          ELSE \E raises \in BOOLEAN :
               IF raises
               THEN \E msg \in W.errors : Set(t, Caught(f, Exc("Exception", msg)))
               ELSE \E v \in Vectors(W, Len(CLASS_LABELS)) :
                       Set(t, [f EXCEPT !.pc = "pd_mask", !.predictions = v,
                                             !.raw_output = v])
    /\ UNCHANGED <<globals, history>>
    /\ UNCHANGED outside_disease

\* a filter that matches by prefix only
valid_indices_prefix_only(labels, crop_filter) ==
    { i \in Indices(labels) : StartsWith(Lower(At(labels, i)), Lower(crop_filter[1])) }

\* lines 279-284
valid_indices(labels, crop_filter) ==
    LET cf == Lower(crop_filter[1])
    IN { i \in Indices(labels) :
            LET label == Lower(At(labels, i))
            IN \/ StartsWith(label, cf)
               \/ (cf = "corn" /\ Contains(label, "corn"))
               \/ (cf = "cherry" /\ Contains(label, "cherry")) }

\* lines 286-288: `predictions * mask`
masked(predictions, valid) ==
    [k \in DOMAIN predictions |-> IF (k - 1) \in valid THEN predictions[k] ELSE 0]

\* a masking step that applies the mask of an empty subset too
pd_mask_when_empty(t) ==
    /\ frame[t].pc = "pd_mask"
    /\ LET f     == frame[t]
           valid == IF Truthy(f.crop_filter)
                    THEN valid_indices(CLASS_LABELS, f.crop_filter) ELSE {}
       IN IF ~Truthy(f.crop_filter)
          THEN Set(t, [f EXCEPT !.pc = "pd_argmax"])
          ELSE IF \E i \in valid : ~InRange(f.predictions, i)
          THEN Set(t, Caught(f, Exc("IndexError", "index out of bounds")))
          ELSE Set(t, [f EXCEPT !.pc = "pd_argmax",
                                !.predictions = masked(f.predictions, valid),
                                !.trace = Append(@, "mask")])
    /\ UNCHANGED <<globals, history>>
    /\ UNCHANGED outside_disease

\* lines 278-288: the crop filter; `mask[valid_indices] = 1.0` raises
\* IndexError for an index past the end of the output vector
pd_mask(t) ==
    /\ frame[t].pc = "pd_mask"
    /\ LET f     == frame[t]
           valid == IF Truthy(f.crop_filter)
                    THEN valid_indices(CLASS_LABELS, f.crop_filter) ELSE {}
       IN IF valid = {}
          THEN Set(t, [f EXCEPT !.pc = "pd_argmax"])
          ELSE IF \E i \in valid : ~InRange(f.predictions, i)
          THEN Set(t, Caught(f, Exc("IndexError", "index out of bounds")))
          ELSE Set(t, [f EXCEPT !.pc = "pd_argmax",
                                !.predictions = masked(f.predictions, valid),
                                !.trace = Append(@, "mask")])
    /\ UNCHANGED <<globals, history>>
    /\ UNCHANGED outside_disease

\* lines 290-292: argmax, confidence, and `CLASS_LABELS[pred_idx]`, which
\* raises IndexError past the end of the registry
pd_argmax(t) ==
    /\ frame[t].pc = "pd_argmax"
    /\ LET f        == frame[t]
           pred_idx == ArgMax(f.predictions)
       IN IF InRange(CLASS_LABELS, pred_idx)
          THEN Set(t, [f EXCEPT !.pc = "pd_threshold",
                                !.pred_idx = pred_idx,
                                !.confidence = MaxOf(f.predictions),
                                !.raw_label = At(CLASS_LABELS, pred_idx),
                                !.trace = Append(@, "argmax")])
          ELSE Set(t, Caught([f EXCEPT !.pred_idx = pred_idx,
                                       !.confidence = MaxOf(f.predictions),
                                       !.trace = Append(@, "argmax")],
                             Exc("IndexError", "list index out of range")))
    /\ UNCHANGED <<globals, history>>
    /\ UNCHANGED outside_disease

\* a threshold that rejects 45.0 itself
below_threshold_inclusive(confidence) == confidence <= CONFIDENCE_THRESHOLD

\* `if confidence < 45.0:`
below_threshold(confidence) == confidence < CONFIDENCE_THRESHOLD

\* the dict of lines 296-303
low_confidence_result(raw_label, confidence) == [
    kind         |-> "result",
    success      |-> FALSE,
    disease_name |-> "Crop Not Trained",
    confidence   |-> Round(confidence, 10),
    is_healthy   |-> FALSE,
    error        |-> "Low confidence (" \o Format1(Round(confidence, 100))
                        \o "%). This crop looks unsupported.",
    raw_label    |-> raw_label ]

\* lines 295-311
pd_threshold(t) ==
    /\ frame[t].pc = "pd_threshold"
    /\ LET f == frame[t]
       IN IF below_threshold(f.confidence)
          THEN Set(t, [f EXCEPT
                    !.pc = "returned",
                    !.trace = Append(@, "threshold"),
                    !.result = low_confidence_result(f.raw_label, f.confidence)])
          ELSE Set(t, [f EXCEPT
                    !.pc = "returned",
                    !.trace = Append(Append(@, "threshold"), "success"),
                    !.result = success_result(f.raw_label, Round(f.confidence, 10))])
    /\ UNCHANGED <<globals, history>>
    /\ UNCHANGED outside_disease

\* the dict of lines 315-321
error_result(e) == [
    kind         |-> "result",
    success      |-> FALSE,
    disease_name |-> "Error",
    confidence   |-> 0,
    is_healthy   |-> FALSE,
    error        |-> e.msg ]

\* lines 313-321: `except Exception as e:`
pd_except(t) ==
    /\ frame[t].pc = "pd_except"
    /\ Set(t, [frame[t] EXCEPT !.pc = "returned", !.result = error_result(frame[t].exc)])
    /\ UNCHANGED <<globals, history>>
    /\ UNCHANGED outside_disease

predict_disease(t, W) ==
    \/ Call(t, W)
    \/ pd_if_mock(t)
    \/ pd_mock(t)
    \/ pd_scale(t, W)
    \/ pd_preprocess(t, W)
    \/ pd_if_plant(t)
    \/ pd_predict(t, W)
    \/ pd_mask(t)
    \/ pd_argmax(t)
    \/ pd_threshold(t)
    \/ pd_except(t)

\* ============================================ yield_prediction/ml_model.py
\* Numbers: a yield is an integer number of kg per acre; what the regressor
\* returns is a float, kept in tenths of a kg; rainfall is kept in tenths of
\* a mm and temperature in whole degrees.

\* dict.get(key, default)
dict_get(d, key, default) == IF key \in DOMAIN d THEN d[key] ELSE default

DISTRICT_ENCODING == [
    Coimbatore |-> 0, Chennai |-> 1, Madurai |-> 2, Tiruchirappalli |-> 3,
    Salem |-> 4, Tirunelveli |-> 5, Erode |-> 6, Thanjavur |-> 7,
    Vellore |-> 8, Kancheepuram |-> 9, Cuddalore |-> 10, Dindigul |-> 11,
    Krishnagiri |-> 12, Nagapattinam |-> 13, Ramanathapuram |-> 14,
    Sivaganga |-> 15, Theni |-> 16, Virudhunagar |-> 17 ]

SOIL_TYPE_ENCODING ==
    ("Black Soil" :> 0) @@ ("Red Soil" :> 1) @@ ("Alluvial Soil" :> 2) @@
    ("Laterite Soil" :> 3) @@ ("Clay Soil" :> 4) @@ ("Sandy Soil" :> 5) @@
    ("Loamy Soil" :> 6)

CROP_ENCODING == [
    Rice |-> 0, Wheat |-> 1, Maize |-> 2, Sugarcane |-> 3, Cotton |-> 4,
    Groundnut |-> 5, Millets |-> 6, Pulses |-> 7, Banana |-> 8,
    Coconut |-> 9, Turmeric |-> 10, Tea |-> 11 ]

CROP_BASELINES == [
    Rice |-> 1700, Wheat |-> 600, Maize |-> 1900, Sugarcane |-> 35000,
    Cotton |-> 500, Groundnut |-> 700, Millets |-> 500, Pulses |-> 300,
    Banana |-> 17000, Coconut |-> 4000, Turmeric |-> 2200, Tea |-> 650 ]

\* `CROP_BASELINES.get(crop, 1000)`
DEFAULT_BASELINE == 1000

\* `max(predicted, 50)` of the rule-based estimate
MOCK_FLOOR == 50

\* ------------------------------------------------------- yield workloads

Files(plain, gz) == [plain |-> plain, gz |-> gz]

YieldConcurrent == [
    files        |-> {Files(FALSE, TRUE)},
    environs      |-> {Unset},
    districts    |-> {"Salem"},
    soil_types   |-> {"Red Soil"},
    crops        |-> {"Rice"},
    rainfalls    |-> {700},
    temperatures |-> {28},
    regressed    |-> {17000} ]

YieldSequential == [
    files        |-> {Files(p, g) : p, g \in BOOLEAN},
    environs      |-> {Unset, "Yes"},
    districts    |-> {"Salem", "Ooty"},
    soil_types   |-> {"Red Soil"},
    crops        |-> {"Rice", "Pulses", "Barley"},
    rainfalls    |-> {0, 385, 595, 700, 50000},
    temperatures |-> {-10, 28, 60},
    regressed    |-> {-50, 0, 5495, 5500, 8499, 8500, 9345, 9350, 14446, 14450} ]

\* no yield request is ever made
YieldAtRest == [
    files        |-> {Files(FALSE, FALSE)},
    environs      |-> {Unset} ]

\* ----------------------------------------------------------- yield state

YInitFrame == [
    pc            |-> "idle",
    started_after |-> FALSE,    \* history: the call began after a get_yield_model returned
    attempted     |-> FALSE,    \* history: the call went past the _model_loaded test
    touched       |-> FALSE,    \* history: the call read the environment or the file system
    skipped       |-> FALSE,    \* history: SKIP_YIELD_MODEL sent the call to the mock
    found         |-> {},       \* history: the artifacts lines 92 and 103 found to exist
    tried         |-> <<>>,     \* history: the joblib.load attempts, in order
    district      |-> "",
    soil_type     |-> "",
    crop          |-> "",
    rainfall      |-> 0,
    temperature   |-> 0,
    model         |-> NoneVal,
    using_mock    |-> FALSE,
    features      |-> <<>>,
    regressed     |-> 0,        \* history: what model.predict returned
    classified    |-> [called |-> FALSE],   \* history: the _classify_risk call
    exc           |-> NoExc,
    result        |-> [kind |-> "none"] ]

YieldInitWith(W) ==
    /\ yield_model = NoneVal
    /\ yield_model_loaded = FALSE
    /\ yield_using_mock = FALSE
    /\ yield_files \in W.files
    /\ yield_environ \in {[SKIP_YIELD_MODEL |-> v] : v \in W.environs}
    /\ yframe = [t \in Threads |-> YInitFrame]
    /\ yield_loads = 0
    /\ yield_first_return = [done |-> FALSE, model |-> NoneVal, using_mock |-> FALSE]

YSet(t, f) == yframe' = [yframe EXCEPT ![t] = f]
YGoto(t, pc) == YSet(t, [yframe[t] EXCEPT !.pc = pc])

yield_globals == <<yield_model, yield_model_loaded, yield_using_mock, yield_files, yield_environ>>
yield_history == <<yield_loads, yield_first_return>>

\* -------------------------------------------------------- get_yield_model

\* `if _model_loaded:`
gym_if_loaded(t) ==
    /\ yframe[t].pc = "gym_if_loaded"
    /\ IF yield_model_loaded
       THEN YGoto(t, "gym_return")
       ELSE YSet(t, [yframe[t] EXCEPT !.pc = "gym_if_skip", !.attempted = TRUE])
    /\ UNCHANGED <<yield_globals, yield_history>>
    /\ UNCHANGED outside_yield

\* `if os.getenv('SKIP_YIELD_MODEL', 'False').lower() in ('true', '1', 'yes'):`
skip_yield_model ==
    LET value == yield_environ["SKIP_YIELD_MODEL"]
    IN Lower(IF value = Unset THEN "False" ELSE value) \in TRUTHY

gym_if_skip(t) ==
    /\ yframe[t].pc = "gym_if_skip"
    /\ IF skip_yield_model
       THEN YSet(t, [yframe[t] EXCEPT !.pc = "gym_mock_model", !.touched = TRUE,
                                      !.skipped = TRUE])
       ELSE YSet(t, [yframe[t] EXCEPT !.pc = "gym_decompress", !.touched = TRUE])
    /\ UNCHANGED <<yield_globals, yield_history>>
    /\ UNCHANGED outside_yield

\* lines 80-88: write the uncompressed file next to the compressed one; a
\* failure is logged, and may leave a partial file behind
gym_decompress(t) ==
    /\ yframe[t].pc = "gym_decompress"
    /\ IF ~yield_files.plain /\ yield_files.gz
       THEN \E written \in BOOLEAN : yield_files' = [yield_files EXCEPT !.plain = written]
       ELSE yield_files' = yield_files
    /\ YSet(t, [yframe[t] EXCEPT !.pc = "gym_load_plain", !.touched = TRUE])
    /\ UNCHANGED <<yield_model, yield_model_loaded, yield_using_mock, yield_environ,
                   yield_history>>
    /\ UNCHANGED outside_yield

\* lines 92-99: `_model = joblib.load(model_path, mmap_mode='r')`, or an
\* exception, logged
gym_load_plain(t) ==
    /\ yframe[t].pc = "gym_load_plain"
    /\ IF yield_files.plain
       THEN \E loaded \in BOOLEAN :
            IF loaded
            THEN /\ yield_model' = Handle("yield", yield_loads + 1)
                 /\ yield_loads' = yield_loads + 1
                 /\ YSet(t, [yframe[t] EXCEPT !.pc = "gym_set_loaded",
                                              !.found = @ \cup {"plain"},
                                              !.tried = Append(@, "plain")])
            ELSE /\ UNCHANGED <<yield_model, yield_loads>>
                 /\ YSet(t, [yframe[t] EXCEPT !.pc = "gym_load_gz",
                                              !.found = @ \cup {"plain"},
                                              !.tried = Append(@, "plain")])
       ELSE /\ UNCHANGED <<yield_model, yield_loads>>
            /\ YGoto(t, "gym_load_gz")
    /\ UNCHANGED <<yield_model_loaded, yield_using_mock, yield_files, yield_environ,
                   yield_first_return>>
    /\ UNCHANGED outside_yield

\* lines 103-111: `_model = joblib.load(compressed_path)`, or an exception,
\* logged
gym_load_gz(t) ==
    /\ yframe[t].pc = "gym_load_gz"
    /\ IF yield_files.gz
       THEN \E loaded \in BOOLEAN :
            IF loaded
            THEN /\ yield_model' = Handle("yield", yield_loads + 1)
                 /\ yield_loads' = yield_loads + 1
                 /\ YSet(t, [yframe[t] EXCEPT !.pc = "gym_set_loaded",
                                              !.found = @ \cup {"gz"},
                                              !.tried = Append(@, "gz")])
            ELSE /\ UNCHANGED <<yield_model, yield_loads>>
                 /\ YSet(t, [yframe[t] EXCEPT !.pc = "gym_mock_model",
                                              !.found = @ \cup {"gz"},
                                              !.tried = Append(@, "gz")])
       ELSE /\ UNCHANGED <<yield_model, yield_loads>>
            /\ YGoto(t, "gym_mock_model")
    /\ UNCHANGED <<yield_model_loaded, yield_using_mock, yield_files, yield_environ,
                   yield_first_return>>
    /\ UNCHANGED outside_yield

\* `_model_loaded = True` after a load (lines 95, 106)
gym_set_loaded(t) ==
    /\ yframe[t].pc = "gym_set_loaded"
    /\ yield_model_loaded' = TRUE
    /\ YGoto(t, "gym_set_real")
    /\ UNCHANGED <<yield_model, yield_using_mock, yield_files, yield_environ, yield_history>>
    /\ UNCHANGED outside_yield

\* `_using_mock = False` (lines 96, 107)
gym_set_real(t) ==
    /\ yframe[t].pc = "gym_set_real"
    /\ yield_using_mock' = FALSE
    /\ YGoto(t, "gym_return")
    /\ UNCHANGED <<yield_model, yield_model_loaded, yield_files, yield_environ, yield_history>>
    /\ UNCHANGED outside_yield

\* the mock: `_model = None` (lines 71, 115)
gym_mock_model(t) ==
    /\ yframe[t].pc = "gym_mock_model"
    /\ yield_model' = NoneVal
    /\ YGoto(t, "gym_mock_loaded")
    /\ UNCHANGED <<yield_model_loaded, yield_using_mock, yield_files, yield_environ,
                   yield_history>>
    /\ UNCHANGED outside_yield

\* the mock: `_model_loaded = True` (lines 72, 116)
gym_mock_loaded(t) ==
    /\ yframe[t].pc = "gym_mock_loaded"
    /\ yield_model_loaded' = TRUE
    /\ YGoto(t, "gym_mock_flag")
    /\ UNCHANGED <<yield_model, yield_using_mock, yield_files, yield_environ, yield_history>>
    /\ UNCHANGED outside_yield

\* the mock: `_using_mock = True` (lines 73, 117)
gym_mock_flag(t) ==
    /\ yframe[t].pc = "gym_mock_flag"
    /\ yield_using_mock' = TRUE
    /\ YGoto(t, "gym_return")
    /\ UNCHANGED <<yield_model, yield_model_loaded, yield_files, yield_environ, yield_history>>
    /\ UNCHANGED outside_yield

\* `return _model, _using_mock`, received by `model, using_mock = ...`
gym_return(t) ==
    /\ yframe[t].pc = "gym_return"
    /\ YSet(t, [yframe[t] EXCEPT !.pc = "py_if_mock",
                                 !.model = yield_model,
                                 !.using_mock = yield_using_mock])
    /\ yield_first_return' =
            IF yield_first_return.done THEN yield_first_return
            ELSE [done |-> TRUE, model |-> yield_model, using_mock |-> yield_using_mock]
    /\ UNCHANGED <<yield_globals, yield_loads>>
    /\ UNCHANGED outside_yield

get_yield_model(t) ==
    \/ gym_if_loaded(t)
    \/ gym_if_skip(t)
    \/ gym_decompress(t)
    \/ gym_load_plain(t)
    \/ gym_load_gz(t)
    \/ gym_set_loaded(t)
    \/ gym_set_real(t)
    \/ gym_mock_model(t)
    \/ gym_mock_loaded(t)
    \/ gym_mock_flag(t)
    \/ gym_return(t)

\* --------------------------------------------------------- _classify_risk

\* a baseline lookup that knows no generic baseline
baseline_of_known_only(crop) == dict_get(CROP_BASELINES, crop, 0)

\* `baseline = CROP_BASELINES.get(crop, 1000)`
baseline_of(crop) == dict_get(CROP_BASELINES, crop, DEFAULT_BASELINE)

\* `ratio = predicted_yield / baseline if baseline else 0.5`, as the
\* fraction <<numerator, denominator>> with a positive denominator
ratio_of(predicted_yield, baseline) ==
    IF baseline # 0 THEN <<predicted_yield, baseline>> ELSE <<1, 2>>

\* a comparison that leaves the bound itself out
ratio_above(ratio, hundredths) == ratio[1] * 100 > hundredths * ratio[2]

\* `ratio >= 0.85`, `ratio >= 0.55`: the bound in hundredths
ratio_at_least(ratio, hundredths) == ratio[1] * 100 >= hundredths * ratio[2]

\* lines 128-136
classify_risk(predicted_yield, crop) ==
    LET ratio == ratio_of(predicted_yield, baseline_of(crop))
    IN IF ratio_at_least(ratio, 85) THEN "Low"
       ELSE IF ratio_at_least(ratio, 55) THEN "Medium"
       ELSE "High"

\* ---------------------------------------------------------- predict_yield

\* round() of the fraction n / d (d > 0) to an integer, ties to even
RoundDiv(n, d) ==
    LET q == n \div d
        r == n % d
    IN IF 2 * r < d THEN q
       ELSE IF 2 * r > d THEN q + 1
       ELSE IF q % 2 = 0 THEN q ELSE q + 1

Max2(a, b) == IF a >= b THEN a ELSE b
Abs(a) == IF a >= 0 THEN a ELSE 0 - a

\* lines 162-166: base * min(rainfall / 70.0, 1.5) * (1.0 - abs(temperature
\* - 28) * 0.02), rounded, and at least 50; rainfall in tenths of a mm
mock_yield(crop, rainfall, temperature) ==
    LET base            == dict_get(CROP_BASELINES, crop, DEFAULT_BASELINE)
        rainfall_factor == IF 2 * rainfall <= 3 * 700 THEN <<rainfall, 700>> ELSE <<3, 2>>
        temp_factor     == <<50 - Abs(temperature - 28), 50>>
        predicted       == RoundDiv(base * rainfall_factor[1] * temp_factor[1],
                                    rainfall_factor[2] * temp_factor[2])
    IN Max2(predicted, MOCK_FLOOR)

\* a real-model path that forgets `max(predicted, 0)`
real_yield_unclamped(regressed) == RoundDiv(regressed, 10)

\* line 181: `round(max(predicted, 0))`, the regressor's value in tenths
real_yield(regressed) == RoundDiv(Max2(regressed, 0), 10)

\* the dict of lines 168-172 and 183-187
yield_result(predicted, crop) == [
    kind            |-> "result",
    predicted_yield |-> predicted,
    unit            |-> "kg/acre",
    risk_level      |-> classify_risk(predicted, crop) ]

\* what _classify_risk was called with, and what it saw and returned
classify_call(predicted, crop) == [
    called          |-> TRUE,
    predicted_yield |-> predicted,
    crop            |-> crop,
    baseline        |-> baseline_of(crop),
    level           |-> classify_risk(predicted, crop) ]

\* a request thread calls predict_yield(district, soil_type, crop, rainfall,
\* temperature) with values the serializer accepted
YCall(t, W) ==
    /\ yframe[t].pc \in {"idle", "returned", "raised"}
    /\ \E d \in W.districts, s \in W.soil_types, c \in W.crops,
          r \in W.rainfalls, temp \in W.temperatures :
        YSet(t, [YInitFrame EXCEPT !.pc = "gym_if_loaded",
                                   !.district = d,
                                   !.soil_type = s,
                                   !.crop = c,
                                   !.rainfall = r,
                                   !.temperature = temp,
                                   !.started_after = yield_first_return.done])
    /\ UNCHANGED <<yield_globals, yield_history>>
    /\ UNCHANGED outside_yield

\* `if using_mock:`
py_if_mock(t) ==
    /\ yframe[t].pc = "py_if_mock"
    /\ YGoto(t, IF yframe[t].using_mock THEN "py_mock" ELSE "py_real")
    /\ UNCHANGED <<yield_globals, yield_history>>
    /\ UNCHANGED outside_yield

\* lines 161-172: the rule-based estimate
py_mock(t) ==
    /\ yframe[t].pc = "py_mock"
    /\ LET f         == yframe[t]
           predicted == mock_yield(f.crop, f.rainfall, f.temperature)
       IN YSet(t, [f EXCEPT !.pc = "returned",
                            !.classified = classify_call(predicted, f.crop),
                            !.result = yield_result(predicted, f.crop)])
    /\ UNCHANGED <<yield_globals, yield_history>>
    /\ UNCHANGED outside_yield

\* lines 175-187: the encoded features go to model.predict, which raises
\* AttributeError on None; predict_yield has no try
py_real(t, W) ==
    /\ yframe[t].pc = "py_real"
    /\ LET f == [yframe[t] EXCEPT !.features =
                    << dict_get(DISTRICT_ENCODING, yframe[t].district, 0),
                       dict_get(SOIL_TYPE_ENCODING, yframe[t].soil_type, 0),
                       dict_get(CROP_ENCODING, yframe[t].crop, 0),
                       yframe[t].rainfall, yframe[t].temperature >>]
       IN IF f.model = NoneVal
          THEN YSet(t, [f EXCEPT !.pc = "raised",
                                 !.exc = Exc("AttributeError",
                                             "'NoneType' object has no attribute 'predict'"),
                                 !.result = [kind |-> "raised"]])
          ELSE \E regressed \in W.regressed :
                YSet(t, [f EXCEPT !.pc = "returned",
                                  !.regressed = regressed,
                                  !.classified = classify_call(real_yield(regressed), f.crop),
                                  !.result = yield_result(real_yield(regressed), f.crop)])
    /\ UNCHANGED <<yield_globals, yield_history>>
    /\ UNCHANGED outside_yield

predict_yield(t, W) ==
    \/ YCall(t, W)
    \/ get_yield_model(t)
    \/ py_if_mock(t)
    \/ py_mock(t)
    \/ py_real(t, W)

\* ================================= disease/views.py, yield_prediction/views.py
\* A view runs its handler for one request at a time per thread: the
\* handler validates, calls predict_disease or predict_yield (the steps
\* above), saves a row for an authenticated user, and responds.

\* firebase_auth.verify_id_token: the uid of each ID token the identity
\* provider has issued; it raises for any other string
ISSUED == ("alice-token" :> "alice") @@ ("bob-token" :> "bob")

\* the first index at or after i where sep occurs in s, or 0
FindFrom(s, sep, i) ==
    LET at == {k \in i..(Len(s) - Len(sep) + 1) : SubSeq(s, k, k + Len(sep) - 1) = sep}
    IN IF at = {} THEN 0 ELSE CHOOSE k \in at : \A j \in at : k <= j

\* `s.split(sep)[1]` for an s with sep in it: what lies between the first
\* sep and the next one
SplitSecond(s, sep) ==
    LET first == FindFrom(s, sep, 1)
        start == first + Len(sep)
        next  == FindFrom(s, sep, start)
    IN IF next = 0 THEN SubSeq(s, start, Len(s)) ELSE SubSeq(s, start, next - 1)

\* _get_uid_from_token: None without the Bearer scheme, None when Firebase
\* cannot be initialised or verify_id_token raises, else the uid of the
\* decoded token
get_uid_from_token(auth_header, verifiable) ==
    IF ~StartsWith(auth_header, "Bearer ") THEN NoneVal
    ELSE LET token == SplitSecond(auth_header, "Bearer ")
         IN IF verifiable /\ token \in DOMAIN ISSUED THEN Some(ISSUED[token]) ELSE NoneVal

\* rest_framework Response(data, status=...)
Response(status, data) == [status |-> status, data |-> data]
NoResponse == [status |-> 0, data |-> <<>>]

\* `[:50]` of both history views
HISTORY_LIMIT == 50

\* seq[:n]
Take(seq, n) == SubSeq(seq, 1, IF Len(seq) < n THEN Len(seq) ELSE n)

\* Meta.ordering = ['-created_at']: ORDER BY created_at DESC; of two rows
\* of one instant the one created later is taken to come first
NewestFirst(rows) ==
    LET n == Len(rows)
        newer(j, i) == \/ rows[j].created_at > rows[i].created_at
                       \/ rows[j].created_at = rows[i].created_at /\ j > i
        place == [i \in 1..n |-> 1 + Cardinality({j \in 1..n : newer(j, i)})]
    IN IF place = <<>> THEN <<>>
       ELSE [k \in 1..n |-> rows[CHOOSE i \in 1..n : place[i] = k]]

\* a query that forgets the user
filter_by_anyone(rows, uid) == NewestFirst(rows)

\* `Model.objects.filter(user_uid=user_uid)`, in the model's ordering
filter_by_user(rows, uid) ==
    LET mine(r) == r.user_uid = uid
    IN NewestFirst(SelectSeq(rows, mine))

\* DiseasePrediction.objects.create(...): id and created_at are given by
\* the table; rows are created one at a time, so created_at grows with id
DiseaseRow(rows, uid, result, filename) == [
    id           |-> Len(rows) + 1,
    user_uid     |-> uid,
    disease_name |-> result.disease_name,
    confidence   |-> result.confidence,
    is_healthy   |-> result.is_healthy,
    raw_label    |-> IF "raw_label" \in DOMAIN result THEN result.raw_label ELSE "",
    filename     |-> filename,
    created_at   |-> Len(rows) + 1 ]

\* YieldPrediction.objects.create(...)
YieldRow(rows, uid, f) == [
    id              |-> Len(rows) + 1,
    user_uid        |-> uid,
    district        |-> f.district,
    soil_type       |-> f.soil_type,
    crop            |-> f.crop,
    rainfall        |-> f.rainfall,
    temperature     |-> f.temperature,
    predicted_yield |-> f.result.predicted_yield,
    unit            |-> f.result.unit,
    risk_level      |-> f.result.risk_level,
    created_at      |-> Len(rows) + 1 ]

\* the dict a history view returns for a row (lines 163-172; 120-131)
disease_entry(p) == [
    id           |-> ToString(p.id),
    disease_name |-> p.disease_name,
    confidence   |-> p.confidence,
    is_healthy   |-> p.is_healthy,
    raw_label    |-> p.raw_label,
    filename     |-> p.filename,
    created_at   |-> p.created_at ]

yield_entry(p) == [
    id              |-> ToString(p.id),
    district        |-> p.district,
    soil_type       |-> p.soil_type,
    crop            |-> p.crop,
    rainfall        |-> p.rainfall,
    temperature     |-> p.temperature,
    predicted_yield |-> p.predicted_yield,
    unit            |-> p.unit,
    risk_level      |-> p.risk_level,
    created_at      |-> p.created_at ]

\* ---------------------------------------------------------- web workloads

\* rows created since the process started
MaxSaves == 1

\* a table as earlier runs of the server left it: 51 rows of one user
\* around one row of another
EarlierDiseaseRows == [k \in 1..52 |->
    [id |-> k, user_uid |-> IF k = 10 THEN "bob" ELSE "alice",
     disease_name |-> "Rice Hispa", confidence |-> 91200, is_healthy |-> FALSE,
     raw_label |-> "Rice___Hispa", filename |-> "leaf.jpg", created_at |-> k]]

EarlierYieldRows == [k \in 1..52 |->
    [id |-> k, user_uid |-> IF k = 10 THEN "bob" ELSE "alice",
     district |-> "Salem", soil_type |-> "Red Soil", crop |-> "Rice", rainfall |-> 700,
     temperature |-> 28, predicted_yield |-> 1700, unit |-> "kg/acre",
     risk_level |-> "Low", created_at |-> k]]

\* requests to the four endpoints: Authorization headers, uploads, the
\* serializer's verdict on a yield form; with one image and one form
Requests == [
    disease      |-> [Concurrent EXCEPT !.peaks = {90000, 30000}],
    yield        |-> YieldConcurrent,
    auths        |-> {"", "Bearer alice-token", "Bearer bob-token", "Bearer forged",
                      "Token alice-token"},
    uploads      |-> {"leaf.jpg", "(none)", "(11 MB)", "leaf.gif", "(corrupt)"},
    forms        |-> {"valid", "invalid"},
    disease_rows |-> {EarlierDiseaseRows},
    yield_rows   |-> {EarlierYieldRows} ]

\* no request reaches a view
WebAtRest == [disease_rows |-> {<<>>}, yield_rows |-> {<<>>}]

\* ------------------------------------------------------------- web state

WebInitFrame == [
    pc       |-> "idle",
    endpoint |-> "",
    auth     |-> "",
    upload   |-> "",
    result   |-> [kind |-> "none"],    \* `result = predict_...(...)`
    saved    |-> 0,                    \* history: the id of the row this request created
    response |-> NoResponse ]

WebInitWith(W) ==
    /\ disease_rows \in W.disease_rows
    /\ yield_rows \in W.yield_rows
    /\ web = [t \in Threads |-> WebInitFrame]
    /\ saves = 0

WSet(t, f) == web' = [web EXCEPT ![t] = f]

\* the view responds
Respond(t, response) == WSet(t, [web[t] EXCEPT !.pc = "done", !.response = response])

\* the view responds after its call returned `result`, having created the
\* row `saved` (0: none)
RespondTo(t, result, saved, response) ==
    WSet(t, [web[t] EXCEPT !.pc = "done", !.result = result, !.saved = saved,
                           !.response = response])

\* a thread takes the next request
Free(t) == web[t].pc \in {"idle", "done"}

\* ----------------------------------------------- DiseasePredictView.post

\* lines 68-91: the serializer, the size limit and the content types
disease_post_validate(t, W) ==
    /\ Free(t)
    /\ saves < MaxSaves
    /\ \E auth \in W.auths, upload \in W.uploads :
        LET req == [WebInitFrame EXCEPT !.endpoint = "disease/predict",
                                        !.auth = auth, !.upload = upload]
        IN CASE upload = "(none)" ->
                    WSet(t, [req EXCEPT !.pc = "done", !.response =
                        Response(400, [success |-> FALSE,
                                       errors |-> "image: No file was submitted."])])
             [] upload = "(11 MB)" ->
                    WSet(t, [req EXCEPT !.pc = "done", !.response =
                        Response(400, [success |-> FALSE,
                                       error |-> "Image exceeds 10 MB limit."])])
             [] upload = "leaf.gif" ->
                    WSet(t, [req EXCEPT !.pc = "done", !.response =
                        Response(400, [success |-> FALSE,
                                       error |-> "Unsupported image type: image/gif."])])
             [] OTHER -> WSet(t, [req EXCEPT !.pc = "open"])
    /\ UNCHANGED <<disease_rows, yield_rows, saves>>
    /\ UNCHANGED <<disease_vars, yield_vars, tts_vars, weather_vars>>

\* lines 93-103: the image is opened, resized and divided by 255, and
\* predict_disease is called with it and the `crop` field; Image.open raises
\* on a file that is no image
disease_post_predict(t, W) ==
    /\ web[t].pc = "open"
    /\ IF web[t].upload = "(corrupt)"
       THEN /\ Respond(t, Response(500, [success |-> FALSE,
                    error |-> "Prediction failed: cannot identify image file"]))
            /\ UNCHANGED frame
       ELSE /\ WSet(t, [web[t] EXCEPT !.pc = "predicting"])
            /\ \E cf \in W.disease.filters :
                Set(t, [InitFrame EXCEPT !.pc = "gdm_if_loaded",
                                         !.image_array = Tensor("unit"),
                                         !.crop_filter = cf,
                                         !.started_after = first_return.done])
    /\ UNCHANGED <<globals, history>>
    /\ UNCHANGED <<disease_rows, yield_rows, saves>>
    /\ UNCHANGED <<yield_vars, tts_vars, weather_vars>>

\* the body of the 200 response (lines 124-129)
disease_response(result) == [
    success      |-> TRUE,
    disease_name |-> result.disease_name,
    confidence   |-> result.confidence,
    is_healthy   |-> result.is_healthy ]

\* lines 105-136: the row of an authenticated user is saved, and the
\* response is built from the result; an exception out of predict_disease
\* becomes a 500; the locals of the call that returned are gone
disease_post_respond(t) ==
    /\ web[t].pc = "predicting"
    /\ web[t].endpoint = "disease/predict"
    /\ frame[t].pc \in {"returned", "raised"}
    /\ IF frame[t].pc = "raised"
       THEN /\ RespondTo(t, frame[t].result, 0, Response(500, [success |-> FALSE,
                    error |-> "Prediction failed: " \o frame[t].exc.msg]))
            /\ UNCHANGED <<disease_rows, saves>>
       ELSE \E verifiable \in BOOLEAN :
            LET user_uid == get_uid_from_token(web[t].auth, verifiable)
                result   == frame[t].result
            IN /\ IF Truthy(user_uid)
                  THEN /\ disease_rows' = Append(disease_rows,
                                DiseaseRow(disease_rows, user_uid[1], result, web[t].upload))
                       /\ saves' = saves + 1
                  ELSE UNCHANGED <<disease_rows, saves>>
               /\ RespondTo(t, result,
                            IF Truthy(user_uid) THEN Len(disease_rows) + 1 ELSE 0,
                            Response(200, disease_response(result)))
    /\ Set(t, InitFrame)
    /\ UNCHANGED <<globals, history>>
    /\ UNCHANGED yield_rows
    /\ UNCHANGED <<yield_vars, tts_vars, weather_vars>>

DiseasePredictView_post(t, W) ==
    \/ disease_post_validate(t, W)
    \/ disease_post_predict(t, W)
    \/ disease_post_respond(t)

\* ------------------------------------------------ DiseaseHistoryView.get

\* what a history view answers with the rows the query gave it
history_response(auth, verifiable, rows, entry(_)) ==
    LET user_uid == get_uid_from_token(auth, verifiable)
    IN IF ~Truthy(user_uid)
       THEN Response(401, [success |-> FALSE,
                           error |-> "Authentication required. Please log in."])
       ELSE LET predictions == Take(filter_by_user(rows, user_uid[1]), HISTORY_LIMIT)
            IN Response(200, [success |-> TRUE,
                              data |-> [k \in DOMAIN predictions |-> entry(predictions[k])]])

DiseaseHistoryView_get(t, W) ==
    /\ Free(t)
    /\ \E auth \in W.auths, verifiable \in BOOLEAN :
        WSet(t, [WebInitFrame EXCEPT
            !.pc = "done", !.endpoint = "disease/history", !.auth = auth,
            !.response = history_response(auth, verifiable, disease_rows, disease_entry)])
    /\ UNCHANGED <<disease_rows, yield_rows, saves>>
    /\ UNCHANGED <<disease_vars, yield_vars, tts_vars, weather_vars>>

\* ------------------------------------------------- YieldPredictView.post

\* lines 47-63: the serializer, then predict_yield with the validated data
yield_post_validate(t, W) ==
    /\ Free(t)
    /\ saves < MaxSaves
    /\ \E auth \in W.auths, form \in W.forms :
        LET req == [WebInitFrame EXCEPT !.endpoint = "yield/predict", !.auth = auth]
        IN IF form = "invalid"
           THEN /\ WSet(t, [req EXCEPT !.pc = "done", !.response =
                        Response(400, [success |-> FALSE,
                                       errors |-> "rainfall: This field is required."])])
                /\ UNCHANGED yframe
           ELSE /\ WSet(t, [req EXCEPT !.pc = "predicting"])
                /\ \E d \in W.yield.districts, s \in W.yield.soil_types, c \in W.yield.crops,
                      r \in W.yield.rainfalls, temp \in W.yield.temperatures :
                    YSet(t, [YInitFrame EXCEPT !.pc = "gym_if_loaded",
                                               !.district = d,
                                               !.soil_type = s,
                                               !.crop = c,
                                               !.rainfall = r,
                                               !.temperature = temp,
                                               !.started_after = yield_first_return.done])
    /\ UNCHANGED <<yield_globals, yield_history>>
    /\ UNCHANGED <<disease_rows, yield_rows, saves>>
    /\ UNCHANGED <<disease_vars, tts_vars, weather_vars>>

\* the body of the 200 response (lines 86-91)
yield_response(result) == [
    success         |-> TRUE,
    predicted_yield |-> result.predicted_yield,
    unit            |-> result.unit,
    risk_level      |-> result.risk_level ]

\* lines 65-98
yield_post_respond(t) ==
    /\ web[t].pc = "predicting"
    /\ web[t].endpoint = "yield/predict"
    /\ yframe[t].pc \in {"returned", "raised"}
    /\ IF yframe[t].pc = "raised"
       THEN /\ RespondTo(t, yframe[t].result, 0, Response(500, [success |-> FALSE,
                    error |-> "Prediction failed: " \o yframe[t].exc.msg]))
            /\ UNCHANGED <<yield_rows, saves>>
       ELSE \E verifiable \in BOOLEAN :
            LET user_uid == get_uid_from_token(web[t].auth, verifiable)
            IN /\ IF Truthy(user_uid)
                  THEN /\ yield_rows' = Append(yield_rows,
                                YieldRow(yield_rows, user_uid[1], yframe[t]))
                       /\ saves' = saves + 1
                  ELSE UNCHANGED <<yield_rows, saves>>
               /\ RespondTo(t, yframe[t].result,
                            IF Truthy(user_uid) THEN Len(yield_rows) + 1 ELSE 0,
                            Response(200, yield_response(yframe[t].result)))
    /\ YSet(t, YInitFrame)
    /\ UNCHANGED <<yield_globals, yield_history>>
    /\ UNCHANGED disease_rows
    /\ UNCHANGED <<disease_vars, tts_vars, weather_vars>>

YieldPredictView_post(t, W) ==
    \/ yield_post_validate(t, W)
    \/ yield_post_respond(t)

\* -------------------------------------------------- YieldHistoryView.get

YieldHistoryView_get(t, W) ==
    /\ Free(t)
    /\ \E auth \in W.auths, verifiable \in BOOLEAN :
        WSet(t, [WebInitFrame EXCEPT
            !.pc = "done", !.endpoint = "yield/history", !.auth = auth,
            !.response = history_response(auth, verifiable, yield_rows, yield_entry)])
    /\ UNCHANGED <<disease_rows, yield_rows, saves>>
    /\ UNCHANGED <<disease_vars, yield_vars, tts_vars, weather_vars>>

\* the steps of predict_disease and predict_yield a view's call runs
\* through
PredictSteps(t, W) ==
    \/ get_disease_model(t)
    \/ get_gatekeeper_model(t)
    \/ check_is_plant(t, W.disease)
    \/ pd_if_mock(t)
    \/ pd_mock(t)
    \/ pd_scale(t, W.disease)
    \/ pd_preprocess(t, W.disease)
    \/ pd_if_plant(t)
    \/ pd_predict(t, W.disease)
    \/ pd_mask(t)
    \/ pd_argmax(t)
    \/ pd_threshold(t)
    \/ pd_except(t)
    \/ get_yield_model(t)
    \/ py_if_mock(t)
    \/ py_mock(t)
    \/ py_real(t, W.yield)

\* ============================================================ tts/views.py

\* hashlib.md5(s.encode('utf-8')).hexdigest(): one digest per string (two
\* strings with one digest are not looked for)
md5(s) == "md5(" \o s \o ")"

\* lines 28-29: `f"{text}-{lang}"` hashed, and `f"{file_hash}.mp3"`
tts_file_name(text, lang) == md5(text \o "-" \o lang) \o ".mp3"

\* lines 39-40
tts_full_url(file_name) == "http://testserver/media/tts/" \o file_name

\* `request.data.get('lang', 'en')`
lang_of(lang) == IF lang = Unset THEN "en" ELSE lang

\* os.path.exists(file_path)
tts_exists(file_name) == tts_media[file_name] # "absent"

Settings(openai, weather) == [OPENAI_API_KEY |-> openai, WEATHER_API_KEY |-> weather]

\* texts and languages of the requests; some pairs join to one string
Speech == [
    settings |-> {Settings("sk-test", ""), Settings("", "")},
    texts    |-> {"", "Scan leaf", "Scan leaf-ta"},
    langs    |-> {Unset, "ta-en"} ]

\* no request reaches the view
TtsAtRest == [settings |-> {Settings("", "")}, texts |-> {""}, langs |-> {Unset}]

TtsInitFrame == [
    pc        |-> "idle",
    text      |-> "",
    lang      |-> "",
    file_name |-> "",
    called    |-> FALSE,    \* history: the request called the OpenAI API
    response  |-> NoResponse ]

TtsInitWith(W) ==
    /\ settings \in W.settings
    /\ tts_media = [n \in {tts_file_name(x, lang_of(l)) : x \in W.texts, l \in W.langs}
                        |-> "absent"]
    /\ tts = [t \in Threads |-> TtsInitFrame]
    /\ tts_generated = {}

TSet(t, f) == tts' = [tts EXCEPT ![t] = f]
TRespond(t, response) == TSet(t, [tts[t] EXCEPT !.pc = "done", !.response = response])

\* lines 19-44: the text is required; a file with the name of the hash is
\* answered as cached
tts_check(t, W) ==
    /\ tts[t].pc \in {"idle", "done"}
    /\ \E text \in W.texts, l \in W.langs :
        LET lang      == lang_of(l)
            file_name == tts_file_name(text, lang)
            req       == [TtsInitFrame EXCEPT !.text = text, !.lang = lang,
                                              !.file_name = file_name]
        IN IF text = ""
           THEN TSet(t, [TtsInitFrame EXCEPT !.pc = "done", !.lang = lang, !.response =
                            Response(400, [error |-> "Text is required"])])
           ELSE IF tts_exists(file_name)
           THEN TSet(t, [req EXCEPT !.pc = "done", !.response =
                            Response(200, [audio_url |-> tts_full_url(file_name),
                                           cached |-> TRUE])])
           ELSE TSet(t, [req EXCEPT !.pc = "tts_key"])
    /\ UNCHANGED <<settings, tts_media, tts_generated>>
    /\ UNCHANGED <<disease_vars, yield_vars, web_vars, weather_vars>>

\* `if not settings.OPENAI_API_KEY:`
tts_key(t) ==
    /\ tts[t].pc = "tts_key"
    /\ IF settings.OPENAI_API_KEY = ""
       THEN TRespond(t, Response(500, [error |-> "Server missing OpenAI API Key"]))
       ELSE TSet(t, [tts[t] EXCEPT !.pc = "tts_create"])
    /\ UNCHANGED <<settings, tts_media, tts_generated>>
    /\ UNCHANGED <<disease_vars, yield_vars, web_vars, weather_vars>>

\* lines 51-60: client.audio.speech.create(...) returns the audio, or raises
tts_create(t) ==
    /\ tts[t].pc = "tts_create"
    /\ \/ TSet(t, [tts[t] EXCEPT !.pc = "tts_open", !.called = TRUE])
       \/ TSet(t, [tts[t] EXCEPT !.pc = "done", !.called = TRUE, !.response =
                        Response(500, [error |-> "Connection error."])])
    /\ UNCHANGED <<settings, tts_media, tts_generated>>
    /\ UNCHANGED <<disease_vars, yield_vars, web_vars, weather_vars>>

\* line 64, response.stream_to_file(file_path): the file is opened for
\* writing, which creates it or empties it
tts_open(t) ==
    /\ tts[t].pc = "tts_open"
    /\ tts_media' = [tts_media EXCEPT ![tts[t].file_name] = "partial"]
    /\ TSet(t, [tts[t] EXCEPT !.pc = "tts_write"])
    /\ UNCHANGED <<settings, tts_generated>>
    /\ UNCHANGED <<disease_vars, yield_vars, web_vars, weather_vars>>

\* lines 64-69: the audio is written and the URL returned, or the write
\* raises (the disk is full) and what was written stays
tts_write(t) ==
    /\ tts[t].pc = "tts_write"
    /\ \/ /\ tts_media' = [tts_media EXCEPT ![tts[t].file_name] = "complete"]
          /\ tts_generated' = tts_generated \cup {<<tts[t].text, tts[t].lang>>}
          /\ TRespond(t, Response(200, [audio_url |-> tts_full_url(tts[t].file_name),
                                        cached |-> FALSE]))
       \/ /\ UNCHANGED <<tts_media, tts_generated>>
          /\ TRespond(t, Response(500, [error |-> "No space left on device"]))
    /\ UNCHANGED settings
    /\ UNCHANGED <<disease_vars, yield_vars, web_vars, weather_vars>>

TextToSpeechView_post(t, W) ==
    \/ tts_check(t, W)
    \/ tts_key(t)
    \/ tts_create(t)
    \/ tts_open(t)
    \/ tts_write(t)

\* ======================================================== weather/views.py

\* `time_diff.total_seconds() > 600`
REFRESH_SECONDS == 600

\* requests.get calls in a run, and the end of the clock
MaxCalls == 3
MaxNow == 700

\* `WeatherLog.objects.filter(city__istartswith=city)`
matching(rows, city) ==
    {k \in DOMAIN rows : StartsWith(Lower(rows[k].city), Lower(city))}

\* `.first()` under Meta.ordering = ['-timestamp']: a row with the newest
\* timestamp, whichever the database gives among equals; none is <<>>
first_matching(rows, city) ==
    LET ks == matching(rows, city)
    IN IF ks = {} THEN {NoneVal}
       ELSE {<<rows[k]>> : k \in {k \in ks : \A j \in ks : rows[j].timestamp <= rows[k].timestamp}}

\* the cities asked for, the location name WeatherAPI.com answers each
\* with, and how the clock moves between steps
Forecasts == [
    settings |-> {Settings("", "wk-test"), Settings("", "")},
    cities   |-> {"Chennai", "chen", "Madras"},
    names    |-> ("Chennai" :> "Chennai") @@ ("chen" :> "Chennai") @@ ("Madras" :> "Chennai"),
    passes   |-> {300, 301} ]

WeatherInitFrame == [
    pc           |-> "idle",
    city         |-> "",
    should_fetch |-> FALSE,
    last_log     |-> NoneVal,   \* what the first query returned
    checked_at   |-> 0,         \* the timezone.now() of line 23
    response     |-> NoResponse ]

WeatherInit ==
    /\ weather_rows = <<>>
    /\ now = 0
    /\ wreq = WeatherInitFrame
    /\ weather_calls = <<>>

\* time passes
tick(W) ==
    /\ \E d \in W.passes :
        /\ now + d <= MaxNow
        /\ now' = now + d
    /\ UNCHANGED <<weather_rows, wreq, weather_calls>>
    /\ UNCHANGED <<disease_vars, yield_vars, web_vars, tts_vars>>

\* `time_diff.total_seconds() > 600`
stale(age) == age > REFRESH_SECONDS

\* lines 14-31: the newest log of the city decides whether to fetch, and
\* a missing API key decides against it
weather_check(W) ==
    /\ wreq.pc \in {"idle", "done"}
    /\ Len(weather_calls) < MaxCalls
    /\ \E city \in W.cities : \E last \in first_matching(weather_rows, city) :
        LET wanted == last = NoneVal \/ stale(now - last[1].timestamp)
            api_key == settings.WEATHER_API_KEY
        IN wreq' = [WeatherInitFrame EXCEPT
                        !.pc = IF wanted /\ api_key # "" THEN "fetch" ELSE "respond",
                        !.city = city,
                        !.should_fetch = wanted /\ api_key # "",
                        !.last_log = last,
                        !.checked_at = now]
    /\ UNCHANGED <<weather_rows, now, weather_calls>>
    /\ UNCHANGED <<disease_vars, yield_vars, web_vars, tts_vars>>

\* lines 33-55: requests.get; a 200 is stored under the location name of
\* the answer; another status stores nothing; an exception is printed
weather_fetch(W) ==
    /\ wreq.pc = "fetch"
    /\ \E outcome \in {"200", "400", "timeout"} :
        /\ weather_calls' = Append(weather_calls,
                [city |-> wreq.city, at |-> now, stored |-> outcome = "200"])
        /\ weather_rows' = IF outcome = "200"
                           THEN Append(weather_rows,
                                    [city |-> W.names[wreq.city], timestamp |-> now])
                           ELSE weather_rows
    /\ wreq' = [wreq EXCEPT !.pc = "respond"]
    /\ UNCHANGED now
    /\ UNCHANGED <<disease_vars, yield_vars, web_vars, tts_vars>>

\* lines 57-80: the newest log of the city, or the mock
weather_respond(W) ==
    /\ wreq.pc = "respond"
    /\ \E latest \in first_matching(weather_rows, wreq.city) :
        wreq' = [wreq EXCEPT !.pc = "done", !.response =
            IF latest = NoneVal
            THEN Response(200, [location |-> wreq.city, mock |-> TRUE])
            ELSE Response(200, [location |-> latest[1].city, mock |-> FALSE])]
    /\ UNCHANGED <<weather_rows, now, weather_calls>>
    /\ UNCHANGED <<disease_vars, yield_vars, web_vars, tts_vars>>

WeatherView_get(W) ==
    \/ weather_check(W)
    \/ weather_fetch(W)
    \/ weather_respond(W)

\* --------------------------------------------------------- specifications

Step(t, W) ==
    \/ predict_disease(t, W)
    \/ get_disease_model(t)
    \/ get_gatekeeper_model(t)
    \/ check_is_plant(t, W)

\* disease request threads interleaving statement by statement
Init ==
    InitWith(Concurrent) /\ YieldInitWith(YieldAtRest)
       /\ WebInitWith(WebAtRest) /\ TtsInitWith(TtsAtRest) /\ WeatherInit
Next == \E t \in Threads : Step(t, Concurrent)
Spec == Init /\ [][Next]_vars

\* one disease request at a time, over the full range of inputs and backend
\* answers
InitSeq ==
    InitWith(Sequential) /\ YieldInitWith(YieldAtRest)
       /\ WebInitWith(WebAtRest) /\ TtsInitWith(TtsAtRest) /\ WeatherInit
NextSeq == Step(1, Sequential)
SpecSeq == InitSeq /\ [][NextSeq]_vars

\* yield request threads interleaving statement by statement
InitYield ==
    InitWith(Concurrent) /\ YieldInitWith(YieldConcurrent)
       /\ WebInitWith(WebAtRest) /\ TtsInitWith(TtsAtRest) /\ WeatherInit
NextYield == \E t \in Threads : predict_yield(t, YieldConcurrent)
SpecYield == InitYield /\ [][NextYield]_vars

\* one yield request at a time, over the full range of inputs, artifacts and
\* regressor answers
InitYieldSeq ==
    InitWith(Concurrent) /\ YieldInitWith(YieldSequential)
       /\ WebInitWith(WebAtRest) /\ TtsInitWith(TtsAtRest) /\ WeatherInit
NextYieldSeq == predict_yield(1, YieldSequential)
SpecYieldSeq == InitYieldSeq /\ [][NextYieldSeq]_vars

\* one disease request at a time, over the settings of the gatekeeper flags
InitGate ==
    InitWith(GatePolicy) /\ YieldInitWith(YieldAtRest)
       /\ WebInitWith(WebAtRest) /\ TtsInitWith(TtsAtRest) /\ WeatherInit
NextGate == Step(1, GatePolicy)
SpecGate == InitGate /\ [][NextGate]_vars

\* one disease request at a time, in a process that imported the module
\* with any of the label files
InitLabels ==
    InitWith(Labelled) /\ YieldInitWith(YieldAtRest)
       /\ WebInitWith(WebAtRest) /\ TtsInitWith(TtsAtRest) /\ WeatherInit
NextLabels == Step(1, Labelled)
SpecLabels == InitLabels /\ [][NextLabels]_vars

\* one request at a time to the predict and history endpoints
InitWeb ==
    InitWith(Requests.disease) /\ YieldInitWith(Requests.yield)
       /\ WebInitWith(Requests) /\ TtsInitWith(TtsAtRest) /\ WeatherInit
NextWeb ==
    \/ DiseasePredictView_post(1, Requests)
    \/ DiseaseHistoryView_get(1, Requests)
    \/ YieldPredictView_post(1, Requests)
    \/ YieldHistoryView_get(1, Requests)
    \/ PredictSteps(1, Requests)
SpecWeb == InitWeb /\ [][NextWeb]_vars

\* text-to-speech request threads interleaving statement by statement
InitTts ==
    InitWith(Concurrent) /\ YieldInitWith(YieldAtRest)
       /\ WebInitWith(WebAtRest) /\ TtsInitWith(Speech) /\ WeatherInit
NextTts == \E t \in Threads : TextToSpeechView_post(t, Speech)
SpecTts == InitTts /\ [][NextTts]_vars

\* one weather request at a time, while time passes
InitWeather ==
    InitWith(Concurrent) /\ YieldInitWith(YieldAtRest)
       /\ WebInitWith(WebAtRest)
       /\ TtsInitWith([TtsAtRest EXCEPT !.settings = Forecasts.settings]) /\ WeatherInit
NextWeather == WeatherView_get(Forecasts) \/ tick(Forecasts)
SpecWeather == InitWeather /\ [][NextWeather]_vars

\* ------------------------------------------------------------ properties

\* get_disease_model has returned to this call of predict_disease
Acquired(t) == Has(frame[t].trace, "acquire")

\* predict_disease has returned a dict
Returned(t) == frame[t].pc = "returned"

\* C1: once a call to get_disease_model has completed, every call begun
\* later returns the pair the first completed call returned, and makes no
\* load attempt of its own.
C1_LaterCallsSeeFirstReturn ==
    \A t \in Threads :
        frame[t].started_after =>
            /\ ~frame[t].attempted
            /\ Acquired(t) =>
                /\ frame[t].model = first_return.model
                /\ frame[t].using_mock = first_return.using_mock

\* C2: under concurrent first calls load_model is executed at most once,
\* and every caller receives the same handle and the same mock flag.
C2_SingleLoadSharedHandle ==
    /\ loads <= 1
    /\ \A t \in Threads :
        Acquired(t) =>
            /\ frame[t].model = first_return.model
            /\ frame[t].using_mock = first_return.using_mock

\* C3: the gatekeeper load is attempted once: after a failed first attempt
\* no load is attempted again and the model stays absent; after a successful
\* one the same handle stays cached.
C3_GatekeeperLoadedOnce ==
    /\ gk_first = "failed" => (~gk_retried /\ gatekeeper_model = NoneVal)
    /\ gk_first = "loaded" => (gk_loads = 1 /\ gatekeeper_model = Handle("gatekeeper", 1))

\* C4: on the real-model path no exception leaves predict_disease: every
\* exception after the model is acquired becomes a success=false result.
C4_NoExceptionLeavesRealPath ==
    \A t \in Threads :
        (Acquired(t) /\ ~frame[t].using_mock) => frame[t].pc # "raised"

\* C5: with the mock backend active predict_disease never raises, whatever
\* the label registry and the crop filter.
C5_MockNeverRaises ==
    \A t \in Threads :
        (Acquired(t) /\ frame[t].using_mock) => frame[t].pc # "raised"

\* C6: every returned result with success=false carries an error that is a
\* non-empty string.
C6_FailureCarriesError ==
    \A t \in Threads :
        (Returned(t) /\ ~frame[t].result.success) =>
            /\ "error" \in DOMAIN frame[t].result
            /\ frame[t].result.error # ""

\* the steps of the real-model path in the order of the code, and in the
\* order the pipeline is described in
CodeOrder == <<"acquire", "normalize", "gate", "inference", "mask", "argmax",
               "threshold", "success">>
DescribedOrder == <<"acquire", "gate", "normalize", "inference", "mask", "argmax",
                    "threshold", "success">>

Rank(order, step) == CHOOSE i \in DOMAIN order : order[i] = step

\* every step at most once, and in the given order
RunsInOrder(trace, order) ==
    \A i, j \in DOMAIN trace :
        i < j => Rank(order, trace[i]) < Rank(order, trace[j])

\* gk.predict was called in this call of predict_disease
GateEvaluated(t) == frame[t].gate_event \in {"decoded", "error"}

\* the tensor as the caller passed it
AsPassed(tensor) == ~tensor.scaled /\ ~tensor.preprocessed

\* the tensor after lines 254-259: rescaled if it was in [0,1], preprocessed
Normalized(tensor) == tensor.preprocessed /\ tensor.scaled = (tensor.src = "unit")

\* C7 as stated: the steps run in the described order, the content gate
\* before the normalization and on the tensor the caller passed in.
C7_GateBeforeNormalization ==
    \A t \in Threads :
        /\ RunsInOrder(frame[t].trace, DescribedOrder)
        /\ GateEvaluated(t) => AsPassed(frame[t].gate_input)

\* C7 as amended: the real-model path is linear, each step at most once, in
\* the order acquire, normalize, gate, inference, mask, argmax, threshold,
\* success; the gatekeeper is given the rescaled and preprocessed tensor.
C7_LinearPipeline ==
    \A t \in Threads :
        /\ RunsInOrder(frame[t].trace, CodeOrder)
        /\ GateEvaluated(t) => Normalized(frame[t].gate_input)

C7_Witness ==
    \E t \in Threads :
        /\ Returned(t)
        /\ frame[t].trace = CodeOrder
        /\ frame[t].gate_event = "decoded"
        /\ frame[t].image_array.src = "unit"

IsRejection(r) == r.disease_name = "Invalid data"
IsErrorResult(r) == r.disease_name = "Error"

\* C8: when the gatekeeper is absent or its inference raises, the gate
\* counts as passed, predict_disease goes on to run model.predict, and what
\* it returns is no content rejection; the gate itself raises nothing.
C8_GateFailsOpen ==
    \A t \in Threads :
        frame[t].gate_event \in {"skipped", "error"} =>
            /\ frame[t].is_plant
            /\ frame[t].pc # "raised"
            /\ frame[t].pc = "pd_if_plant" => frame[t].exc = NoExc
            /\ Returned(t) =>
                /\ Has(frame[t].trace, "inference")
                /\ ~IsRejection(frame[t].result)

C8_Witness ==
    \E t \in Threads :
        /\ Returned(t)
        /\ frame[t].gate_event = "error"
        /\ frame[t].result.success

\* none of the decoded labels contains a keyword, letter case aside
NoPlantKeyword(decoded) ==
    \A i \in DOMAIN decoded : \A k \in VALID : ~Contains(Lower(decoded[i]), k)

RejectionNaming(t, shown) ==
    (Returned(t) /\ frame[t].gate_event = "decoded") =>
        /\ IsRejection(frame[t].result) <=> NoPlantKeyword(frame[t].decoded)
        /\ IsRejection(frame[t].result) =>
            /\ ~frame[t].result.success
            /\ frame[t].result.raw_label = "invalid_content"
            /\ frame[t].result.error =
                    "Image appears to be '" \o shown \o "', not a crop leaf."
            /\ ~Has(frame[t].trace, "inference")

\* C9 as stated: with the gatekeeper's labels decoded, the result is a
\* content rejection exactly when no top-3 label contains a plant keyword;
\* the rejection names the top-1 decoded label as it was decoded.
C9_RejectionNamesDecodedLabel ==
    \A t \in Threads : RejectionNaming(t, frame[t].decoded[1])

\* C9 as amended: the same, the rejection naming the top-1 decoded label
\* with every underscore replaced by a space.
C9_RejectionNamesSpacedLabel ==
    \A t \in Threads :
        RejectionNaming(t, Replace(frame[t].decoded[1], "_", " "))

C9_Witness ==
    \E t \in Threads :
        /\ Returned(t)
        /\ IsRejection(frame[t].result)
        /\ Contains(frame[t].decoded[1], "_")

\* model.predict returned a vector with one entry per label
FullVector(t) ==
    /\ Returned(t)
    /\ Has(frame[t].trace, "inference")
    /\ Len(frame[t].predictions) = Len(CLASS_LABELS)

\* C10: for every output vector of the registry's length the result is
\* success=false, 'Crop Not Trained', exactly when the confidence (the
\* maximum after masking, times 100) is below 45.0, and success=true at 45.0
\* and above; the low-confidence result carries the label at the argmax
\* index and the confidence rounded to two decimals.
C10_StrictThreshold ==
    \A t \in Threads :
        FullVector(t) =>
            LET r == frame[t].result
                c == MaxOf(frame[t].predictions)
            IN /\ Has(frame[t].trace, "threshold")
               /\ c < 45000 =>
                    /\ ~r.success
                    /\ r.disease_name = "Crop Not Trained"
                    /\ r.raw_label = At(CLASS_LABELS, ArgMax(frame[t].predictions))
                    /\ r.confidence = Round(c, 10)
               /\ c >= 45000 =>
                    /\ r.success
                    /\ r.disease_name # "Crop Not Trained"

C10_Witness ==
    \E t \in Threads :
        /\ FullVector(t)
        /\ MaxOf(frame[t].predictions) = 45000
        /\ frame[t].result.success

\* the crop words the masking step is described as aliasing, and the ones
\* the filter expression of lines 279-284 names
DescribedAliases == {"corn", "cherry", "pepper", "rice", "wheat", "onion"}
CodedAliases == {"corn", "cherry"}

\* the label indices a filter selects: the labels starting with the filter,
\* letter case aside, and, for a filter that is one of the aliases, every
\* label containing it
MaskedSubset(labels, crop_filter, aliases) ==
    LET cf == Lower(crop_filter[1])
    IN { i \in Indices(labels) :
            \/ StartsWith(Lower(At(labels, i)), cf)
            \/ (cf \in aliases /\ Contains(Lower(At(labels, i)), cf)) }

\* the masking step of this call has just completed
MaskDone(t) == frame[t].pc = "pd_argmax"

\* the masking step of this call has just raised
MaskRaised(t) ==
    /\ frame[t].pc = "pd_except"
    /\ frame[t].raw_output # <<>>
    /\ frame[t].exc.type = "IndexError"
    /\ ~Has(frame[t].trace, "argmax")

\* after the masking step the vector is the model's output with every entry
\* outside a non-empty subset set to zero, and the output itself when the
\* subset is empty
MaskedAs(t, aliases) ==
    LET f   == frame[t]
        raw == f.raw_output
        S   == MaskedSubset(CLASS_LABELS, f.crop_filter, aliases)
    IN (MaskDone(t) /\ Truthy(f.crop_filter)) =>
            f.predictions = IF S = {} THEN raw
                            ELSE [k \in DOMAIN raw |-> IF (k - 1) \in S THEN raw[k] ELSE 0]

\* the masking step raises exactly for a subset reaching past the end of
\* the output vector, and the exception is caught
RaisesPastEnd(t, aliases) ==
    LET f == frame[t]
        S == MaskedSubset(CLASS_LABELS, f.crop_filter, aliases)
    IN /\ (MaskDone(t) /\ Truthy(f.crop_filter)) => S \subseteq Indices(f.raw_output)
       /\ MaskRaised(t) =>
            /\ Truthy(f.crop_filter)
            /\ \E i \in S : ~InRange(f.raw_output, i)

MatchesNoLabel(labels, crop_filter) ==
    /\ Truthy(crop_filter)
    /\ \A i \in Indices(labels) : ~Contains(Lower(At(labels, i)), Lower(crop_filter[1]))

\* what lines 290-321 return for the vector v when no filter is given
UnfilteredResult(labels, v) ==
    IF ~InRange(labels, ArgMax(v))
    THEN error_result(Exc("IndexError", "list index out of range"))
    ELSE IF below_threshold(MaxOf(v))
    THEN low_confidence_result(At(labels, ArgMax(v)), MaxOf(v))
    ELSE success_result(At(labels, ArgMax(v)), Round(MaxOf(v), 10))

C13_ArgmaxFirstOccurrence ==
    \A t \in Threads :
        (Has(frame[t].trace, "argmax") /\ Len(frame[t].raw_output) = Len(CLASS_LABELS)) =>
            LET v == frame[t].predictions
                i == frame[t].pred_idx
            IN /\ InRange(v, i)
               /\ \A j \in Indices(v) :
                    /\ At(v, j) <= At(v, i)
                    /\ j < i => At(v, j) < At(v, i)
               /\ frame[t].raw_label = At(CLASS_LABELS, i)
               /\ Returned(t) => frame[t].result.raw_label = At(CLASS_LABELS, i)

C13_Witness ==
    \E t \in Threads :
        /\ Returned(t)
        /\ Has(frame[t].trace, "argmax")
        /\ Len(frame[t].raw_output) = Len(CLASS_LABELS)
        /\ frame[t].pred_idx = 1
        /\ At(frame[t].predictions, Len(CLASS_LABELS) - 1) = At(frame[t].predictions, 1)
        /\ At(frame[t].predictions, 1) > 0

C13_WitnessMasked ==
    \E t \in Threads :
        /\ Returned(t)
        /\ Has(frame[t].trace, "mask")
        /\ Has(frame[t].trace, "argmax")
        /\ Len(frame[t].raw_output) = Len(CLASS_LABELS)
        /\ frame[t].pred_idx = 0
        /\ \A j \in Indices(frame[t].predictions) : At(frame[t].predictions, j) = 0
        /\ MaxOf(frame[t].raw_output) > 0

\* the argmax of the model's output lies past the end of the registry
IndexPastRegistry(t) ==
    /\ Has(frame[t].trace, "argmax")
    /\ ~InRange(CLASS_LABELS, frame[t].pred_idx)

\* C14: when the argmax index is out of bounds of the label registry, the
\* index is clamped to 0 and the call goes on with the label at index 0
\* through the threshold, instead of ending in the error result.
C14_IndexClampedToZero ==
    \A t \in Threads :
        (IndexPastRegistry(t) /\ Returned(t)) =>
            /\ ~IsErrorResult(frame[t].result)
            /\ Has(frame[t].trace, "threshold")
            /\ frame[t].result.raw_label = At(CLASS_LABELS, 0)

\* C15: every result predict_disease returns carries a confidence within
\* [0, 100] (0 to 100000 in units of 0.001 percent), whatever vector the
\* model returned.
C15_ConfidenceWithinPercent ==
    \A t \in Threads :
        Returned(t) =>
            /\ frame[t].result.confidence >= 0
            /\ frame[t].result.confidence <= 100000

\* the first label containing the filter, letter case aside, or the label
\* at index 29 when no filter is given or no label contains it
MockLabel(labels, crop_filter) ==
    LET hits == IF Truthy(crop_filter)
                THEN { i \in Indices(labels) :
                         Contains(Lower(At(labels, i)), Lower(crop_filter[1])) }
                ELSE {}
    IN IF hits # {}
       THEN At(labels, CHOOSE i \in hits : \A j \in hits : i <= j)
       ELSE At(labels, 29)

\* this call of predict_disease has ended, by a return or by an exception
Ended(t) == frame[t].pc \in {"returned", "raised"}

\* C16: with the mock backend active, predict_disease runs neither the
\* content gate nor the normalization nor the inference, and returns
\* success=true with confidence 85.50 and the raw_label of the first label
\* containing the crop filter, or of the label at index 29 when no filter
\* is given or none matches, whatever the image.
C16_MockResult ==
    \A t \in Threads :
        (Acquired(t) /\ frame[t].using_mock /\ Ended(t)) =>
            /\ Returned(t)
            /\ frame[t].trace = <<"acquire">>
            /\ frame[t].gate_event = ""
            /\ frame[t].result.success
            /\ frame[t].result.confidence = 85500
            /\ frame[t].result.raw_label = MockLabel(CLASS_LABELS, frame[t].crop_filter)

\* ------------------------------------------------------ yield properties

\* predict_yield has returned a dict
YReturned(t) == yframe[t].pc = "returned"

\* get_yield_model has returned to this call of predict_yield
YAcquired(t) == yframe[t].pc \in {"py_if_mock", "py_mock", "py_real", "returned", "raised"}

\* C17: _classify_risk bands the ratio predicted_yield / baseline with
\* inclusive lower bounds: 'Low' exactly when the ratio is at least 0.85,
\* 'Medium' exactly when it is at least 0.55 and below 0.85, 'High' exactly
\* when it is below 0.55; every non-negative yield gets exactly one band.
C17_RiskBands ==
    \A t \in Threads :
        (yframe[t].classified.called /\ yframe[t].classified.predicted_yield >= 0) =>
            LET y     == yframe[t].classified.predicted_yield
                b     == yframe[t].classified.baseline
                level == yframe[t].classified.level
            IN /\ b > 0
               /\ level \in {"Low", "Medium", "High"}
               /\ level = "Low" <=> 100 * y >= 85 * b
               /\ level = "Medium" <=> (100 * y >= 55 * b /\ 100 * y < 85 * b)
               /\ level = "High" <=> 100 * y < 55 * b

C17_Witness ==
    \E t \in Threads :
        /\ YReturned(t)
        /\ 100 * yframe[t].classified.predicted_yield = 85 * yframe[t].classified.baseline
        /\ yframe[t].result.risk_level = "Low"

C17_WitnessMedium ==
    \E t \in Threads :
        /\ YReturned(t)
        /\ 100 * yframe[t].classified.predicted_yield = 55 * yframe[t].classified.baseline
        /\ yframe[t].result.risk_level = "Medium"

\* the crop's baseline in the table, 1000 for a crop the table lacks
FixedBaseline(crop) ==
    IF crop \in DOMAIN CROP_BASELINES THEN CROP_BASELINES[crop] ELSE 1000

BandOf(y, b) ==
    IF 100 * y >= 85 * b THEN "Low" ELSE IF 100 * y >= 55 * b THEN "Medium" ELSE "High"

\* C18: in every result of predict_yield, on the mock path and on the
\* real-model path, risk_level is the band of the returned predicted_yield
\* over the fixed baseline of the requested crop (1000 for a crop without
\* one): a function of predicted_yield and crop alone.
C18_RiskFromYieldAndCrop ==
    \A t \in Threads :
        YReturned(t) =>
            /\ yframe[t].classified.predicted_yield = yframe[t].result.predicted_yield
            /\ yframe[t].classified.crop = yframe[t].crop
            /\ yframe[t].result.risk_level =
                    BandOf(yframe[t].result.predicted_yield, FixedBaseline(yframe[t].crop))

C18_Witness ==
    \E t \in Threads :
        /\ YReturned(t)
        /\ yframe[t].using_mock
        /\ yframe[t].crop = "Barley"
        /\ yframe[t].district = "Ooty"
        /\ yframe[t].result.risk_level = "Low"

\* C19: every result of predict_yield has a non-negative predicted_yield,
\* the unit 'kg/acre' and a risk_level among Low, Medium and High, over the
\* range of inputs the serializer accepts and whatever the regressor
\* returned.
C19_ResultShape ==
    \A t \in Threads :
        YReturned(t) =>
            /\ yframe[t].result.predicted_yield >= 0
            /\ yframe[t].result.unit = "kg/acre"
            /\ yframe[t].result.risk_level \in {"Low", "Medium", "High"}

C19_Witness ==
    \E t \in Threads :
        /\ YReturned(t)
        /\ ~yframe[t].using_mock
        /\ yframe[t].regressed < 0
        /\ yframe[t].result.predicted_yield = 0
        /\ yframe[t].result.risk_level = "High"

\* the call is at the statements that select the mock
SelectsMock(t) == yframe[t].pc \in {"gym_mock_model", "gym_mock_loaded", "gym_mock_flag"}

\* C20: get_yield_model tries the uncompressed artifact, then the
\* compressed one, and selects the mock only when SKIP_YIELD_MODEL is set
\* or no artifact it found could be loaded; once a call has completed,
\* every call begun later returns the pair the first completed call
\* returned, without reading the environment or the file system.
C20_YieldSingleton ==
    \A t \in Threads :
        /\ yframe[t].tried \in {<<>>, <<"plain">>, <<"gz">>, <<"plain", "gz">>}
        /\ (SelectsMock(t) /\ ~yframe[t].skipped) =>
                \A a \in yframe[t].found : Has(yframe[t].tried, a)
        /\ yframe[t].started_after =>
                /\ ~yframe[t].attempted
                /\ ~yframe[t].touched
                /\ YAcquired(t) =>
                    /\ yframe[t].model = yield_first_return.model
                    /\ yframe[t].using_mock = yield_first_return.using_mock

\* the value of a flag reads as true
FlagTruthy(value) == value # Unset /\ Lower(value) \in TRUTHY

\* the described policy: the override decides when it is present, the
\* deployment profile when it is not
DescribedEnabled ==
    IF environ["ENABLE_GATEKEEPER"] # Unset
    THEN FlagTruthy(environ["ENABLE_GATEKEEPER"])
    ELSE ~FlagTruthy(environ["RENDER"])

\* the call is past the policy test of get_gatekeeper_model, on the side
\* that uses the gatekeeper
PastPolicyEnabled(t) == frame[t].pc \in {"gk_if_none", "gk_load", "gk_return", "cip_predict"}

\* check_is_plant has received what get_gatekeeper_model returned
GateAnswered(t) == frame[t].pc = "cip_if_gk"

\* C21: without ENABLE_GATEKEEPER the gate is enabled unless RENDER is
\* truthy; with it, its value alone decides; a disabled gate returns None
\* and no load is ever attempted, and an enabled gate returns None only
\* after a load attempt.
C21_GatekeeperPolicy ==
    \A t \in Threads :
        /\ PastPolicyEnabled(t) => DescribedEnabled
        /\ ~DescribedEnabled =>
                /\ gk_first = "none"
                /\ gk_loads = 0
                /\ gatekeeper_model = NoneVal
                /\ frame[t].gk = NoneVal
        /\ (GateAnswered(t) /\ DescribedEnabled) => gk_first # "none"

\* the override disables the gate off the constrained profile, and enables
\* it on the constrained profile
C21_Witness ==
    \E t \in Threads :
        /\ GateAnswered(t)
        /\ environ["ENABLE_GATEKEEPER"] # Unset
        /\ \/ /\ ~FlagTruthy(environ["RENDER"])
              /\ ~DescribedEnabled
              /\ frame[t].gk = NoneVal
           \/ /\ FlagTruthy(environ["RENDER"])
              /\ DescribedEnabled
              /\ frame[t].gk # NoneVal

\* the file was found and read
FileRead == labels_file.exists /\ labels_file.readable

\* the <<index part, label part>> of the lines of the form `index: label`
\* (a colon, and an integer before it), in file order
WellFormedFields(file) ==
    LET fields == [k \in DOMAIN file.lines |-> SplitOnce(Strip(file.lines[k]), ":")]
        well(parts) == Len(parts) = 2 /\ IsInt(parts[1])
    IN SelectSeq(fields, well)

\* C22: when the label file exists, the registry is made of the labels of
\* all its well-formed lines, by ascending index; a line without a colon
\* and a line whose index is no integer are each passed over, and neither
\* makes the other lines be dropped.
C22_MalformedLinesSkipped ==
    FileRead => CLASS_LABELS = labels_by_index(WellFormedFields(labels_file))

\* every line with a colon has an integer before it
AllIndexed(file) ==
    \A k \in DOMAIN file.lines :
        LET parts == SplitOnce(Strip(file.lines[k]), ":")
        IN Len(parts) = 2 => IsInt(parts[1])

\* a line of the file declares this label with this index
Declares(file, i, label) ==
    \E k \in DOMAIN file.lines :
        LET parts == SplitOnce(Strip(file.lines[k]), ":")
        IN /\ Len(parts) = 2
           /\ IsInt(parts[1])
           /\ IntOf(parts[1]) = i
           /\ Strip(parts[2]) = label

\* the indices the file declares
DeclaredIndices(file) ==
    {i \in -1..Len(file.lines) + 1 : \E k \in DOMAIN CLASS_LABELS : Declares(file, i, CLASS_LABELS[k])}

\* the call took its label from the registry at the argmax of the vector
LabelledByArgmax(t) ==
    /\ frame[t].pc \in {"pd_threshold", "returned"}
    /\ Has(frame[t].trace, "argmax")
    /\ frame[t].exc = NoExc

\* C23: for a label file read in full, whatever the order of its lines,
\* with indices declared twice or with gaps, every declared index i is a
\* position of the registry and holds a label the file declares for i, and
\* a call that finds its maximum at position k of the output vector
\* reports a label the file declares for k.
C23_IndexIsPosition ==
    (FileRead /\ AllIndexed(labels_file)) =>
        /\ \A i \in DeclaredIndices(labels_file) :
                /\ InRange(CLASS_LABELS, i)
                /\ Declares(labels_file, i, At(CLASS_LABELS, i))
        /\ \A t \in Threads :
                LabelledByArgmax(t) =>
                    Declares(labels_file, frame[t].pred_idx, frame[t].raw_label)

\* the same for calls only: what breaks for a process is the label a
\* request is answered with
C23_ReportedUnderDeclaredIndex ==
    (FileRead /\ AllIndexed(labels_file)) =>
        \A t \in Threads :
            (Returned(t) /\ LabelledByArgmax(t)) =>
                Declares(labels_file, frame[t].pred_idx, frame[t].raw_label)

\* the primary cache is warm: a get_disease_model call has completed
Warm == first_return.done

\* C24 as described: once the primary cache is warm, no step of a
\* predict_disease call changes the primary handle, the mock flag, the
\* label registry or the gatekeeper handle.
C24_WarmCacheFrozen ==
    [][Warm => UNCHANGED <<model, using_mock, CLASS_LABELS, gatekeeper_model>>]_vars

\* C24: once the primary cache is warm, no step of a predict_disease call
\* changes the primary handle, the mock flag or the label registry; the
\* gatekeeper handle is set by the call whose MobileNetV2 load succeeds,
\* and does not change once it is set.
C24_WarmCacheFrozenButGatekeeper ==
    [][Warm => /\ UNCHANGED <<model, using_mock, CLASS_LABELS>>
               /\ gatekeeper_model # NoneVal => UNCHANGED gatekeeper_model]_vars

\* a call begun after the cache was warm has returned, and the gatekeeper
\* was loaded after the cache was warm
C24_Witness ==
    \E t \in Threads :
        /\ Warm
        /\ Returned(t)
        /\ frame[t].started_after
        /\ gatekeeper_model # NoneVal
        /\ frame[t].gk = gatekeeper_model

\* no underscore, no space at either end, no two spaces in a row
SpaceNormalized(s) ==
    /\ ~Contains(s, "_")
    /\ ~Contains(s, "  ")
    /\ Len(s) > 0 => (CharAt(s, 1) # " " /\ CharAt(s, Len(s)) # " ")

\* every letter that starts a word is upper case, every other letter is
\* lower case
TitleCased(s) ==
    \A i \in 1..Len(s) :
        LET c == CharAt(s, i)
            starts == i = 1 \/ ~IsCased(CharAt(s, i - 1))
        IN IsCased(c) => IF starts THEN c \in DOMAIN LowerOf ELSE c \in DOMAIN UpperOf

\* predict_disease has returned a success result
Succeeded(t) == Returned(t) /\ frame[t].result.success

\* C25: the disease name of a success result is the raw label title-cased
\* and space-normalized: no underscore is left, and no leading, trailing or
\* doubled space; 'Tomato___Early_blight' is named 'Tomato Early Blight'.
C25_FormattedLabel ==
    \A t \in Threads :
        Succeeded(t) =>
            LET name == frame[t].result.disease_name
            IN /\ SpaceNormalized(name)
               /\ TitleCased(name)
               /\ frame[t].result.raw_label = "Tomato___Early_blight" =>
                        name = "Tomato Early Blight"

\* the labels of the masked subset of this call
SubsetLabels(t) ==
    {At(CLASS_LABELS, i) : i \in MaskedSubset(CLASS_LABELS, frame[t].crop_filter, CodedAliases)}

\* C29: when the crop filter selects a non-empty subset of the registry
\* and the mask was applied, the raw_label of the success result and of
\* the low-confidence result is a label of that subset, whatever the
\* output vector, one that is zero all over the subset included.
C29_LabelWithinSubset ==
    \A t \in Threads :
        (Returned(t) /\ Has(frame[t].trace, "mask") /\ Has(frame[t].trace, "argmax")
            /\ frame[t].exc = NoExc) =>
                frame[t].result.raw_label \in SubsetLabels(t)

\* the same, for output vectors with a positive entry inside the subset
C29_LabelWithinSubsetWhenPositive ==
    \A t \in Threads :
        (Returned(t) /\ Has(frame[t].trace, "mask") /\ Has(frame[t].trace, "argmax")
            /\ frame[t].exc = NoExc /\ frame[t].confidence > 0) =>
                frame[t].result.raw_label \in SubsetLabels(t)

\* DiseasePredictView.post has answered a request whose predict_disease
\* call returned a result
Answered(t) ==
    /\ web[t].pc = "done"
    /\ web[t].endpoint = "disease/predict"
    /\ web[t].result.kind = "result"

\* C26: when predict_disease returns a result with success = false (the
\* content gate or the confidence threshold rejected the image), the
\* response of POST /api/disease/predict/ has success = false too and
\* carries the error text of the result.
C26_FailureReachesClient ==
    \A t \in Threads :
        (Answered(t) /\ ~web[t].result.success) =>
            LET data == web[t].response.data
            IN /\ ~data.success
               /\ "error" \in DOMAIN data
               /\ data.error = web[t].result.error

\* the user a request proves to be: its Authorization header is `Bearer `
\* and then an ID token the identity provider issued
ProvenUser(auth) ==
    IF \E token \in DOMAIN ISSUED : auth = "Bearer " \o token
    THEN {ISSUED[token] : token \in {x \in DOMAIN ISSUED : auth = "Bearer " \o x}}
    ELSE {}

\* the rows of a table a list of history entries stands for
RowsOf(rows, data) == [k \in DOMAIN data |-> rows[CHOOSE i \in DOMAIN rows : ToString(rows[i].id) = data[k].id]]

\* a history answer for this user out of this table: rows of the user
\* only, at most HISTORY_LIMIT of them, newest first, and none left out
\* that is newer than one returned
HistoryOf(rows, data, uid) ==
    LET got == RowsOf(rows, data)
    IN /\ Len(data) <= 50
       /\ \A k \in DOMAIN data : \E i \in DOMAIN rows : ToString(rows[i].id) = data[k].id
       /\ \A k \in DOMAIN got : got[k].user_uid = uid
       /\ \A k \in 1..(Len(got) - 1) : got[k].created_at > got[k + 1].created_at
       /\ \A i \in DOMAIN rows :
            (rows[i].user_uid = uid /\ ~\E k \in DOMAIN got : got[k] = rows[i]) =>
                /\ Len(data) = 50
                /\ \A k \in DOMAIN got : got[k].created_at > rows[i].created_at

\* a history view has answered
HistoryAnswered(t) == web[t].pc = "done" /\ web[t].endpoint \in {"disease/history", "yield/history"}

\* the table a request's endpoint works on
TableOf(t) ==
    IF web[t].endpoint \in {"disease/history", "disease/predict"} THEN disease_rows
    ELSE yield_rows

\* C27: a history endpoint answers 401 without records to a request with
\* no verifiable Bearer token, and otherwise answers only with rows whose
\* user_uid is the uid of the token, at most 50, newest first; a row a
\* predict endpoint creates carries the uid of the token of its request, so
\* no user's history holds a row of another user.
C27_HistoryIsolation ==
    \A t \in Threads :
        /\ HistoryAnswered(t) =>
            LET response == web[t].response
            IN /\ response.status \in {200, 401}
               /\ ProvenUser(web[t].auth) = {} => response.status = 401
               /\ response.status = 401 => "data" \notin DOMAIN response.data
               /\ response.status = 200 =>
                    \A uid \in ProvenUser(web[t].auth) :
                        HistoryOf(TableOf(t), response.data.data, uid)
        /\ web[t].saved # 0 =>
            /\ ProvenUser(web[t].auth) # {}
            /\ \A uid \in ProvenUser(web[t].auth) : TableOf(t)[web[t].saved].user_uid = uid

\* a user with more than 50 rows gets the 50 newest, the row just created
\* first, in a table that holds a row of another user
C27_Witness ==
    \E t \in Threads :
        /\ HistoryAnswered(t)
        /\ web[t].response.status = 200
        /\ Len(web[t].response.data.data) = 50
        /\ saves > 0
        /\ web[t].response.data.data[1].id = ToString(Len(TableOf(t)))
        /\ \E i \in DOMAIN TableOf(t) : TableOf(t)[i].user_uid \notin ProvenUser(web[t].auth)

\* a forged or schemeless token is refused where rows exist
C27_WitnessRefused ==
    \E t \in Threads :
        /\ HistoryAnswered(t)
        /\ web[t].auth \in {"Bearer forged", "Token alice-token"}
        /\ web[t].response.status = 401
        /\ Len(TableOf(t)) > 0

\* the view has told this thread that the audio was cached
ToldCached(t) ==
    /\ tts[t].pc = "done"
    /\ tts[t].response.status = 200
    /\ tts[t].response.data.cached

\* C28: a text-to-speech request is answered cached=true only if an
\* earlier request for the same (text, lang) wrote its audio completely,
\* and then without a call of the OpenAI API; a generation that failed, or
\* has not finished, makes no request report cached=true.
C28_CachedOnlyAfterSuccess ==
    \A t \in Threads :
        ToldCached(t) =>
            /\ <<tts[t].text, tts[t].lang>> \in tts_generated
            /\ ~tts[t].called

\* C30: the weather API is called for a city only when no stored log
\* matches it or the newest matching log is older than 600 seconds, so no
\* two calls for one city parameter lie within 600 seconds of a fetch that
\* succeeded, whatever location name the API answered with; without an API
\* key there is no call at all.
C30_RefreshAtMostEveryTenMinutes ==
    /\ settings.WEATHER_API_KEY = "" => weather_calls = <<>>
    /\ wreq.pc = "fetch" =>
            \/ wreq.last_log = NoneVal
            \/ wreq.checked_at - wreq.last_log[1].timestamp > 600
    /\ \A i, j \in DOMAIN weather_calls :
            (i < j /\ weather_calls[i].city = weather_calls[j].city
                   /\ weather_calls[i].stored) =>
                weather_calls[j].at - weather_calls[i].at > 600

====
